---- MODULE Spec2Model ----
(***************************************************************************)
(* Texas Hold'em engines of JanneMattila/poker.                            *)
(*                                                                         *)
(*   Game       src/src/shared/game.js       (server engine, used by Room) *)
(*   LocalGame  src/src/client/js/game/localGame.js  (pass-and-play)       *)
(*   Player     src/unnamed/part_001 (shared/gameClasses.js)               *)
(*                                                                         *)
(*   Room, RoomManager   src/unnamed/part_001 (shared/room.js),            *)
(*                       src/src/server/roomManager.js                     *)
(*                                                                         *)
(* The two engines live in different processes (Node server / browser), so *)
(* a behaviour runs one of them; `engine` says which: "Game" is the server *)
(* engine driven through its own methods, "Room" is the server engine      *)
(* driven through the Room that owns it, as server.js drives it.  Each     *)
(* object is one record-valued variable whose fields carry the source's    *)
(* names.  The server holds one room, "room"; spectators, passwords, chat  *)
(* and invite codes are left out.                                          *)
(* JavaScript arrays are sequences; a JS index i is the element i + 1.     *)
(*                                                                         *)
(* Cards.  Deck.shuffle() is seeded with Date.now(), so the order of the   *)
(* deck is an input of the environment.  A card is named by its place in   *)
(* the shuffled array (1..52); deck.cards is then fully described by the   *)
(* number of cards left, and dealCard() pops the card with that number.    *)
(* The result of findBestHand for a player at showdown depends on that     *)
(* order only, and is drawn from HandRanks at the showdown; SpecShowdown   *)
(* follows the shuffled array itself (decks[1]) and computes the results   *)
(* (bestHands).                                                            *)
(*                                                                         *)
(* handHistory is write-only for both engines and is kept as its length.   *)
(* Player.lastAction, the newest entry of a seat, is write-only as well:   *)
(* Spec leaves it null, SpecLastAction keeps its type and phase (the       *)
(* variable tracksLastAction tells the two apart).  Player.statistics,     *)
(* LocalGame.lastAction, display names, view counters and timestamps are   *)
(* not read by any engine decision and are left out.                       *)
(***************************************************************************)
EXTENDS Integers, Sequences, FiniteSets, TLC

VARIABLES engine,         \* "Game" | "LocalGame" | "Room": what this process runs, or
                          \* "Deck" | "HandRank" | "BestHand": what it calls
          tracksLastAction, \* Player.lastAction is kept (it is left null otherwise)
          game,           \* the Game object (shared/game.js)
          nextHandTimer,  \* the setTimeout callback of Game.processShowdown is pending
          hung,           \* the event loop is stuck in a loop that never ends
          localGame,      \* the LocalGame object (client/js/game/localGame.js)
          room,           \* the Room object (shared/room.js) of the server
          roomManager,    \* the RoomManager object (server/roomManager.js)
          disconnections, \* the disconnections of the last 30 s, oldest first,
                          \* each with the timer handleDisconnection set for it
          decks,          \* the Deck objects (shared/gameClasses.js) of a caller of Deck
          calls,          \* for each deck, the calls made on it since its last reset
          dealt,          \* for each deck, the cards dealCard returned since then
          hand,           \* the cards given to getHandRank or findBestHand
          handResult,     \* the cards and the rank the function returned
          bestHands       \* for each seat of a table whose cards are followed, the
                          \* rank findBestHand returns for its hole cards and the
                          \* community cards (<<>>: the cards are not followed)

deckVars == <<decks, calls, dealt>>
handVars == <<hand, handResult, bestHands>>

vars == <<engine, tracksLastAction, game, nextHandTimer, hung, localGame,
          room, roomManager, disconnections, decks, calls, dealt, hand, handResult,
          bestHands>>

----------------------------------------------------------------------------
(* Bounds of the exploration *)

\* hands played per game: startNewHand is not explored beyond this hand number
MaxHands == 2
\* disconnections whose 30 s run at the same time
MaxDisconnections == 2
\* largest `amount` argument given to playerAction
MaxAmount == 2
\* entries of Game.handHistory in one hand, the two blinds included (a betting
\* round of Game can go on for ever)
MaxHistory == 6
\* entries of LocalGame.handHistory in one hand (a seat whose bet is above the
\* table bet can check for ever)
MaxLocalHistory == 8

\* gameSettings / settings passed to the constructors (they override the
\* defaults 1000 / 10 / 20 / 6): a small table, so that stacks run out
gameSettings ==
    [startingChips |-> 3, smallBlind |-> 1, bigBlind |-> 2, maxPlayers |-> 3]

BettingPhases == {"pre-flop", "flop", "turn", "river"}

\* the ids of the users who sit down at a table (they come with the request)
UserIds == 0..(gameSettings.maxPlayers - 1)

\* the users who come to a room: one more than it has seats
Visitors == 0..gameSettings.maxPlayers

\* generateId(): a random UUID, an id that nobody holds yet.  Ids are numbers:
\* the users hold 0..maxPlayers, and the id made for the n-th Player of a Game
\* (n = 0, 1, ...) is maxPlayers + 1 + n
generateId(n) == gameSettings.maxPlayers + 1 + n

\* arguments of LocalGame.playerAction (indexes of the players array and one
\* index outside it)
PlayerIds == 0..gameSettings.maxPlayers
\* arguments of Game.playerAction: the id of a user and the players' ids
Ids == {0} \cup { generateId(n) : n \in 0..(gameSettings.maxPlayers - 1) }
ActionTypes == {"fold", "check", "call", "bet", "raise", "dance"}
Amounts == 0..MaxAmount
\* playerAction(playerId, actionType, amount = 0): only bet and raise read amount
AmountsOf(actionType) == IF actionType \in {"bet", "raise"} THEN Amounts ELSE {0}

----------------------------------------------------------------------------
(* Helpers for JavaScript arrays *)

Range(s) == { s[i] : i \in 1..Len(s) }

Includes(s, x) == \E i \in 1..Len(s) : s[i] = x

Filter(s, Test(_)) == SelectSeq(s, Test)

Min(a, b) == IF a < b THEN a ELSE b
Max(a, b) == IF a > b THEN a ELSE b

\* the outcome of a method: the object as the method left it, whether it
\* returned ("none"), threw (the Error's message) or never returns ("hang"),
\* and whether it scheduled the next-hand timer
Ok(g) == [g |-> g, fault |-> "none", timer |-> FALSE]
Throw(g, msg) == [g |-> g, fault |-> msg, timer |-> FALSE]
Hang(g) == [g |-> g, fault |-> "hang", timer |-> FALSE]

----------------------------------------------------------------------------
(* The deck (shared/gameClasses.js) *)

\* createDeck(): card c of 1..52 is the c-th Card pushed, suit by suit
\* (hearts, diamonds, clubs, spades) and rank by rank ('2' .. 'A')
Deck_createDeck == [c \in 1..52 |-> c]

suits == <<"hearts", "diamonds", "clubs", "spades">>

\* card.suit
Card_suit(c) == suits[((c - 1) \div 13) + 1]

\* card.value, Card.getRankValue(rank): 2 .. 10, J = 11, Q = 12, K = 13, A = 14
Card_getRankValue(c) == 2 + ((c - 1) % 13)

\* new Deck()
NewDeck == [cards |-> Deck_createDeck, shuffleHistory |-> <<>>, dealHistory |-> <<>>]

\* the numbers of shuffle are kept in two halves of 16 bits, hi * 65536 + lo:
\* hash is a 32-bit integer (two's complement), seed is 0 .. 2^31
Half == 65536

\* the loop of hashCode over the char codes of str:
\* hash = ((hash << 5) - hash) + char; hash = hash & hash
RECURSIVE Deck_hashLoop(_, _)
Deck_hashLoop(hash, str) ==
    IF str = <<>> THEN hash
    ELSE LET low == hash.lo * 31 + Head(str)
         IN  Deck_hashLoop([hi |-> (hash.hi * 31 + (low \div Half)) % Half, lo |-> low % Half],
                           Tail(str))

\* Deck.hashCode(str): Math.abs(hash), from 0 to 2^31
Deck_hashCode(str) ==
    LET hash == Deck_hashLoop([hi |-> 0, lo |-> 0], str)
    IN  IF hash.hi < Half \div 2 THEN hash
        ELSE IF hash.lo = 0 THEN [hi |-> Half - hash.hi, lo |-> 0]
        ELSE [hi |-> Half - 1 - hash.hi, lo |-> Half - hash.lo]

\* seed * 1103515245 is a double: a product of 2^(53+k) or more keeps the 53
\* leading bits and is rounded to a multiple of 2^k.  The least seeds whose
\* product reaches 2^53, 2^54, .. 2^61
RoundingSeeds ==
    <<8162279, 16324558, 32649116, 65298232, 130596464, 261192927, 522385853,
      1044771706, 2089543412>>

\* the number of bits the product of the seed loses
Deck_lostBits(seed) ==
    Cardinality({ j \in 1..Len(RoundingSeeds) :
                    \/ seed.hi > RoundingSeeds[j] \div Half
                    \/ /\ seed.hi = RoundingSeeds[j] \div Half
                       /\ seed.lo >= RoundingSeeds[j] % Half })

Pow2(k) == 2 ^ k

\* the 31 low bits of the double nearest to a number whose 31 low bits are
\* x and that loses k bits: round to nearest, ties to even
Deck_roundDouble(x, k) ==
    IF k = 0 THEN x
    ELSE LET r == x % Pow2(k)
             base == x - r
             up == r > Pow2(k - 1) \/ (r = Pow2(k - 1) /\ (base \div Pow2(k)) % 2 = 1)
         IN  IF ~up THEN base
             ELSE IF base = (Half \div 2 - 1) * Half + (Half - Pow2(k)) THEN 0
             ELSE base + Pow2(k)

\* seed = (seed * 1103515245 + 12345) & 0x7fffffff
Deck_nextSeed(seed) ==
    LET ah == 1103515245 \div Half
        al == 1103515245 % Half
        k == Deck_lostBits(seed)
        low == seed.lo * al
        mid == (seed.hi * al + seed.lo * ah) % Half
        product == ((low \div Half + mid) % (Half \div 2)) * Half + (low % Half)
        rounded == Deck_roundDouble(product, k)
        limit == (Half \div 2 - 1) * Half + (Half - 12345)
        sum == IF rounded >= limit THEN rounded - limit ELSE rounded + 12345
    IN  Deck_roundDouble(sum, k)

\* an exchange that writes one place only
Deck_swapOnePlace(shuffled, i, j) ==
    [shuffled EXCEPT ![i + 1] = shuffled[j + 1]]

\* [shuffled[i], shuffled[j]] = [shuffled[j], shuffled[i]] (places from 0)
Deck_swap(shuffled, i, j) ==
    [shuffled EXCEPT ![i + 1] = shuffled[j + 1], ![j + 1] = shuffled[i + 1]]

\* the loop of shuffle, while (currentIndex !== 0) …, over its variables
\* [shuffled, currentIndex, seed]
RECURSIVE Deck_shuffleLoop(_)
Deck_shuffleLoop(loop) ==
    IF loop.currentIndex = 0 THEN loop.shuffled
    ELSE LET next == Deck_nextSeed(loop.seed)
             randomIndex == next % loop.currentIndex
         IN  Deck_shuffleLoop(
                 [ shuffled |-> Deck_swap(loop.shuffled, loop.currentIndex - 1, randomIndex),
                   currentIndex |-> loop.currentIndex - 1,
                   seed |-> [hi |-> next \div Half, lo |-> next % Half] ])

\* Deck.shuffle(randomSeed)
Deck_shuffle(d, randomSeed) ==
    [d EXCEPT !.cards = Deck_shuffleLoop([ shuffled |-> d.cards,
                                           currentIndex |-> Len(d.cards),
                                           seed |-> Deck_hashCode(randomSeed) ]),
              !.shuffleHistory = Append(@, [randomSeed |-> randomSeed])]

\* Deck.dealCard() with the cards told apart: the deck it leaves, the card it
\* returns (0 for none) and the error it throws
Deck_dealCardFrom(d) ==
    IF Len(d.cards) = 0
    THEN [deck |-> d, card |-> 0, fault |-> "Cannot deal from empty deck"]
    ELSE LET cards == SubSeq(d.cards, 1, Len(d.cards) - 1)
         IN  [ deck |-> [d EXCEPT !.cards = cards,
                                  !.dealHistory = Append(@, [cardIndex |-> 52 - Len(cards) - 1])],
               card |-> d.cards[Len(d.cards)],
               fault |-> "none" ]

\* Deck.reset() without createDeck()
Deck_resetHistories(d) ==
    [d EXCEPT !.shuffleHistory = <<>>, !.dealHistory = <<>>]

\* Deck.reset()
Deck_reset(d) ==
    [d EXCEPT !.cards = Deck_createDeck, !.shuffleHistory = <<>>, !.dealHistory = <<>>]

----------------------------------------------------------------------------
(* The hand evaluator (shared/utils.js) *)

\* a value of JavaScript that is a number or a string: the string is the
\* sequence of its char codes
JsNumber(n) == [typeof |-> "number", number |-> n, string |-> <<>>]
JsString(str) == [typeof |-> "string", number |-> 0, string |-> str]

\* String(n) for an integer n >= 0: its decimal digits ('0' is char 48)
RECURSIVE Js_digits(_)
Js_digits(n) == IF n < 10 THEN <<48 + n>> ELSE Append(Js_digits(n \div 10), 48 + (n % 10))

\* Number(str) for a string of decimal digits
RECURSIVE Js_parse(_)
Js_parse(str) ==
    IF str = <<>> THEN 0
    ELSE 10 * Js_parse(SubSeq(str, 1, Len(str) - 1)) + (str[Len(str)] - 48)

\* a > b for two strings: by the first code unit that differs, a prefix is less
RECURSIVE Js_stringGreater(_, _)
Js_stringGreater(a, b) ==
    IF a = <<>> THEN FALSE
    ELSE IF b = <<>> THEN TRUE
    ELSE IF Head(a) # Head(b) THEN Head(a) > Head(b)
    ELSE Js_stringGreater(Tail(a), Tail(b))

Js_toNumber(x) == IF x.typeof = "number" THEN x.number ELSE Js_parse(x.string)

\* a > b: two strings are compared as strings, anything else as numbers
Js_greater(a, b) ==
    IF a.typeof = "string" /\ b.typeof = "string" THEN Js_stringGreater(a.string, b.string)
    ELSE Js_toNumber(a) > Js_toNumber(b)

\* an array left as it is
notSorted(array) == array

\* array.sort((a, b) => b - a)
RECURSIVE sortDescending(_)
sortDescending(array) ==
    IF array = <<>> THEN <<>>
    ELSE LET top == CHOOSE i \in 1..Len(array) : \A j \in 1..Len(array) : array[i] >= array[j]
         IN  <<array[top]>> \o sortDescending(SubSeq(array, 1, top - 1) \o
                                              SubSeq(array, top + 1, Len(array)))

\* Object.keys(rankCounts): the keys that are integers come in ascending order
RECURSIVE sortAscending(_)
sortAscending(set) ==
    IF set = {} THEN <<>>
    ELSE LET low == CHOOSE x \in set : \A y \in set : x <= y
         IN  <<low>> \o sortAscending(set \ {low})

\* getHandRank(cards)
getHandRank(cards) ==
    LET ranks == sortDescending([i \in 1..Len(cards) |-> Card_getRankValue(cards[i])])
        isFlush == \A i \in 1..Len(cards) : Card_suit(cards[i]) = Card_suit(cards[1])
        isStraight == \A index \in 1..Len(ranks) : index = 1 \/ ranks[index] = ranks[index - 1] - 1
        isWheel == ranks = <<14, 5, 4, 3, 2>>
        rankCounts == [rank \in Range(ranks) |->
                         Cardinality({ i \in 1..Len(ranks) : ranks[i] = rank })]
        keys == sortAscending(DOMAIN rankCounts)
        counts == sortDescending([i \in 1..Len(keys) |-> rankCounts[keys[i]]])
        \* Object.keys(rankCounts).find(k => rankCounts[k] === n): a string
        Find(n) == LET i == CHOOSE i \in 1..Len(keys) :
                               /\ rankCounts[keys[i]] = n
                               /\ \A j \in 1..(i - 1) : rankCounts[keys[j]] # n
                   IN  JsString(Js_digits(keys[i]))
        \* Math.max(...Object.keys(rankCounts).filter(k => rankCounts[k] === 2)): a number
        MaxOfPairs == CHOOSE rank \in DOMAIN rankCounts :
                         /\ rankCounts[rank] = 2
                         /\ \A other \in DOMAIN rankCounts : rankCounts[other] = 2 => other <= rank
        top == IF ranks = <<>> THEN 0 ELSE ranks[1]
        count0 == IF Len(counts) >= 1 THEN counts[1] ELSE 0
        count1 == IF Len(counts) >= 2 THEN counts[2] ELSE 0
    IN  IF isFlush /\ (isStraight \/ isWheel)
        THEN [type |-> "straight-flush", value |-> 8, high |-> JsNumber(IF isWheel THEN 5 ELSE top)]
        ELSE IF count0 = 4
        THEN [type |-> "four-of-a-kind", value |-> 7, high |-> Find(4)]
        ELSE IF count0 = 3 /\ count1 = 2
        THEN [type |-> "full-house", value |-> 6, high |-> Find(3)]
        ELSE IF isFlush
        THEN [type |-> "flush", value |-> 5, high |-> JsNumber(top)]
        ELSE IF isStraight \/ isWheel
        THEN [type |-> "straight", value |-> 4, high |-> JsNumber(IF isWheel THEN 5 ELSE top)]
        ELSE IF count0 = 3
        THEN [type |-> "three-of-a-kind", value |-> 3, high |-> Find(3)]
        ELSE IF count0 = 2 /\ count1 = 2
        THEN [type |-> "two-pair", value |-> 2, high |-> JsNumber(MaxOfPairs)]
        ELSE IF count0 = 2
        THEN [type |-> "pair", value |-> 1, high |-> Find(2)]
        ELSE [type |-> "high-card", value |-> 0, high |-> JsNumber(top)]

\* array.map over a sequence
Map(array, F(_)) == [i \in 1..Len(array) |-> F(array[i])]

\* the nested loops of findBestHand: the combinations of k places (counted
\* from 1) among from..n, in the order the loops push them
RECURSIVE combinations(_, _, _)
combinations(from, k, n) ==
    IF k = 0 THEN << <<>> >>
    ELSE IF from > n - k + 1 THEN <<>>
    ELSE LET With(rest) == <<from>> \o rest
         IN  Map(combinations(from + 1, k - 1, n), With) \o combinations(from + 1, k, n)

\* the loop `for (const hand of combinations)`: best is [cards, rank]
RECURSIVE findBestHand_loop(_, _)
findBestHand_loop(best, hands) ==
    IF hands = <<>> THEN best
    ELSE LET rank == getHandRank(Head(hands))
             better == \/ rank.value > best.rank.value
                       \/ rank.value = best.rank.value /\ Js_greater(rank.high, best.rank.high)
         IN  findBestHand_loop(IF better THEN [cards |-> Head(hands), rank |-> rank] ELSE best,
                               Tail(hands))

\* findBestHand(holeCards, communityCards)
findBestHand(holeCards, communityCards) ==
    LET allCards == holeCards \o communityCards
        Cards(places) == [x \in 1..Len(places) |-> allCards[places[x]]]
        hands == Map(combinations(1, 5, Len(allCards)), Cards)
    IN  IF Len(allCards) < 5 THEN [cards |-> allCards, rank |-> getHandRank(allCards)]
        ELSE findBestHand_loop([cards |-> hands[1], rank |-> getHandRank(hands[1])], hands)

\* no rank yet
nullRank == [type |-> "null", value |-> 0 - 1, high |-> JsNumber(0)]

\* the Card objects at these places of the shuffled array of the engine's
\* deck, when the model follows it
CardsAt(places) == [i \in 1..Len(places) |-> decks[1].cards[places[i]]]

\* results of findBestHand at a showdown whose cards are not followed: an ace
\* high, a pair of twos, a pair of aces
HandRanks ==
    { [type |-> "high-card", value |-> 0, high |-> JsNumber(14)],
      [type |-> "pair",      value |-> 1, high |-> JsString(Js_digits(2))],
      [type |-> "pair",      value |-> 1, high |-> JsString(Js_digits(14))] }

\* two decks as constructed, no call made yet
NewDecks ==
    /\ decks = <<NewDeck, NewDeck>>
    /\ calls = << <<>>, <<>> >>
    /\ dealt = << <<>>, <<>> >>

\* no deck but the deck of the engine (game.deck, localGame.deck)
NoDeckCalled == decks = <<>> /\ calls = <<>> /\ dealt = <<>>

\* no call of the hand evaluator
NoHandGiven ==
    hand = <<>> /\ handResult = [cards |-> <<>>, rank |-> nullRank] /\ bestHands = <<>>

----------------------------------------------------------------------------
(* Player (shared/gameClasses.js) *)

\* lastAction = null
NoAction == [actionType |-> "null", gamePhase |-> "null"]

\* the fields of a GameAction that say what was done and in which round
GameAction(actionType, gamePhase) ==
    [actionType |-> actionType, gamePhase |-> gamePhase]

\* new Player(userId, displayName, chipStack, position), whose
\* this.playerId = generateId() gave `playerId`
Player(userId, chipStack, position, playerId) ==
    [ playerId |-> playerId, userId |-> userId,
      position |-> position, chipStack |-> chipStack,
      holeCards |-> <<>>, currentBet |-> 0, totalBetThisHand |-> 0,
      status |-> "active", isConnected |-> TRUE, lastAction |-> NoAction ]

\* a bet that takes the amount asked for, whatever the stack holds
Player_betUncapped(player, amount) ==
    [player EXCEPT !.chipStack = @ - amount,
                   !.currentBet = @ + amount,
                   !.totalBetThisHand = @ + amount]

Player_bet(player, amount) ==
    LET allIn == amount > player.chipStack
        a == IF allIn THEN player.chipStack ELSE amount
    IN  [player EXCEPT !.status = IF allIn THEN "all-in" ELSE @,
                       !.chipStack = @ - a,
                       !.currentBet = @ + a,
                       !.totalBetThisHand = @ + a]

Player_fold(player) ==
    [player EXCEPT !.status = "folded", !.holeCards = <<>>]

Player_resetForNewHand(player) ==
    [player EXCEPT !.holeCards = <<>>, !.currentBet = 0, !.totalBetThisHand = 0,
                   !.status = IF player.chipStack > 0 THEN "active" ELSE "sitting-out",
                   !.lastAction = NoAction]

Player_canAct(player) == player.status = "active" /\ player.isConnected

----------------------------------------------------------------------------
(* Game (shared/game.js) *)

NewGame ==
    [ currentHand |-> 0, gamePhase |-> "waiting", players |-> <<>>,
      pot |-> [mainPot |-> 0, sidePots |-> <<>>], communityCards |-> <<>>,
      currentBetAmount |-> 0, minimumRaise |-> 0,
      dealerPosition |-> 0, smallBlindPosition |-> 1, bigBlindPosition |-> 2,
      activePlayerPosition |-> 3, playersInHand |-> <<>>, deck |-> 52,
      handHistory |-> 0, winners |-> <<>> ]

\* players.find(p => p.playerId === playerId); callers test Game_hasPlayer first
Game_hasPlayer(g, playerId) == \E i \in 1..Len(g.players) : g.players[i].playerId = playerId

Game_indexOf(g, playerId) ==
    CHOOSE i \in 1..Len(g.players) :
        /\ g.players[i].playerId = playerId
        /\ \A j \in 1..(i - 1) : g.players[j].playerId # playerId

Game_getPlayer(g, playerId) == g.players[Game_indexOf(g, playerId)]

\* the player object is shared by reference: a change of it shows in players
Game_setPlayer(g, player) ==
    [g EXCEPT !.players[Game_indexOf(g, player.playerId)] = player]

\* this.players.filter(p => this.playersInHand.includes(p.playerId))
Game_activePlayers(g) ==
    LET inHand(p) == Includes(g.playersInHand, p.playerId)
    IN  Filter(g.players, inHand)

\* a canPlayerAct that does not ask whether the player is connected
Game_canPlayerActOffline(g, player) ==
    /\ Includes(g.playersInHand, player.playerId)
    /\ player.status = "active"

Game_canPlayerAct(g, player) ==
    /\ Includes(g.playersInHand, player.playerId)
    /\ player.status = "active"
    /\ player.isConnected

\* canPlayerAct(activePlayers[position]); activePlayers[position] is undefined
\* outside the array and canPlayerAct(undefined) is falsy
Game_canActAt(g, position) ==
    LET activePlayers == Game_activePlayers(g)
    IN  /\ position \in 0..(Len(activePlayers) - 1)
        /\ Game_canPlayerAct(g, activePlayers[position + 1])

Game_findAvailablePosition(g) ==
    CHOOSE i \in 0..(gameSettings.maxPlayers - 1) :
        /\ \A k \in 1..Len(g.players) : g.players[k].position # i
        /\ \A j \in 0..(i - 1) : \E k \in 1..Len(g.players) : g.players[k].position = j

\* players.push(player); players.sort((a, b) => a.position - b.position)
RECURSIVE InsertByPosition(_, _)
InsertByPosition(players, player) ==
    IF players = <<>> THEN <<player>>
    ELSE IF Head(players).position <= player.position
         THEN <<Head(players)>> \o InsertByPosition(Tail(players), player)
         ELSE <<player>> \o players

Game_addPlayer(g, userId) ==
    IF Len(g.players) >= gameSettings.maxPlayers THEN Throw(g, "Game is full")
    ELSE IF g.gamePhase # "waiting" THEN Throw(g, "Cannot add players during active game")
    ELSE LET position == Game_findAvailablePosition(g)
             player == Player(userId, gameSettings.startingChips, position,
                              generateId(Len(g.players)))
         IN  Ok([g EXCEPT !.players = InsertByPosition(g.players, player)])

\* handHistory.push(action); player.lastAction = action
Game_recordAction(g, playerId, actionType, amount) ==
    [g EXCEPT !.handHistory = @ + 1,
              !.players[Game_indexOf(g, playerId)].lastAction =
                  IF tracksLastAction THEN GameAction(actionType, g.gamePhase) ELSE @]

Game_updatePositions(g) ==
    LET n == Len(Game_activePlayers(g))
    IN  IF n = 2
        THEN [g EXCEPT !.dealerPosition = 0, !.smallBlindPosition = 0,
                       !.bigBlindPosition = 1]
        ELSE LET dealer == (g.dealerPosition + 1) % n
             IN  [g EXCEPT !.dealerPosition = dealer,
                           !.smallBlindPosition = (dealer + 1) % n,
                           !.bigBlindPosition = (dealer + 2) % n]

\* deck.dealCard(): pops the last card of the shuffled array
Deck_dealCard(deck) == [card |-> deck, deck |-> deck - 1]

RECURSIVE Game_dealTo(_, _)
Game_dealTo(g, ids) ==
    IF ids = <<>> THEN g
    ELSE LET d == Deck_dealCard(g.deck)
             player == Game_getPlayer(g, Head(ids))
             g1 == Game_setPlayer([g EXCEPT !.deck = d.deck],
                       [player EXCEPT !.holeCards = Append(@, d.card)])
         IN  Game_dealTo(g1, Tail(ids))

Game_dealHoleCards(g) == Game_dealTo(Game_dealTo(g, g.playersInHand), g.playersInHand)

Game_postBlinds(g) ==
    LET activePlayers == Game_activePlayers(g)
    IN  IF Len(activePlayers) < 2 THEN g
        ELSE
        LET sbId == activePlayers[g.smallBlindPosition + 1].playerId
            bbId == activePlayers[g.bigBlindPosition + 1].playerId
            smallBlindAmount == Min(gameSettings.smallBlind, Game_getPlayer(g, sbId).chipStack)
            g1 == Game_setPlayer(g, Player_bet(Game_getPlayer(g, sbId), smallBlindAmount))
            g2 == [g1 EXCEPT !.pot.mainPot = @ + smallBlindAmount]
            g3 == Game_recordAction(g2, sbId, "bet", smallBlindAmount)
            bigBlindAmount == Min(gameSettings.bigBlind, Game_getPlayer(g3, bbId).chipStack)
            g4 == Game_setPlayer(g3, Player_bet(Game_getPlayer(g3, bbId), bigBlindAmount))
            g5 == [g4 EXCEPT !.pot.mainPot = @ + bigBlindAmount,
                             !.currentBetAmount = bigBlindAmount]
        IN  Game_recordAction(g5, bbId, "bet", bigBlindAmount)

\* the while loop of setFirstPlayerToAct, entered when some seat can act
RECURSIVE Game_scan(_, _)
Game_scan(g, position) ==
    IF Game_canActAt(g, position) THEN position
    ELSE Game_scan(g, (position + 1) % Len(Game_activePlayers(g)))

Game_someoneCanAct(g) ==
    \E i \in 0..(Len(Game_activePlayers(g)) - 1) : Game_canActAt(g, i)

Game_setFirstPlayerToAct(g) ==
    LET n == Len(Game_activePlayers(g))
    IN  IF g.gamePhase = "pre-flop"
        THEN IF n = 0 THEN Ok(g)
             ELSE Ok([g EXCEPT !.activePlayerPosition = (g.bigBlindPosition + 1) % n])
        ELSE IF ~Game_someoneCanAct(g) THEN Hang(g)
             ELSE Ok([g EXCEPT !.activePlayerPosition = Game_scan(g, g.smallBlindPosition)])

Game_endGame(g) == [g EXCEPT !.gamePhase = "completed"]

Game_startNewHand(g) ==
    LET g1 == [g EXCEPT !.currentHand = @ + 1, !.gamePhase = "pre-flop",
                        !.communityCards = <<>>, !.currentBetAmount = 0,
                        !.minimumRaise = gameSettings.bigBlind,
                        !.pot = [mainPot |-> 0, sidePots |-> <<>>],
                        !.handHistory = 0, !.winners = <<>>]
        g2 == [g1 EXCEPT !.players =
                  [i \in 1..Len(g1.players) |-> Player_resetForNewHand(g1.players[i])]]
        takesPart(p) == p.chipStack > 0 /\ p.status # "sitting-out"
        in == Filter(g2.players, takesPart)
        g3 == [g2 EXCEPT !.playersInHand = [i \in 1..Len(in) |-> in[i].playerId]]
    IN  IF Len(g3.playersInHand) < 2 THEN Ok(Game_endGame(g3))
        ELSE LET g4 == Game_updatePositions(g3)
                 g5 == [g4 EXCEPT !.deck = 52]
                 g6 == Game_dealHoleCards(g5)
                 g7 == Game_postBlinds(g6)
             IN  Game_setFirstPlayerToAct(g7)

Game_startGame(g) ==
    IF Len(g.players) < 2 THEN Throw(g, "Need at least 2 players to start")
    ELSE Game_startNewHand([g EXCEPT !.gamePhase = "pre-flop"])

Game_getCurrentPlayerIndex(g) == g.activePlayerPosition

Game_isBettingRoundComplete(g) ==
    LET canAct(p) == Includes(g.playersInHand, p.playerId) /\ Player_canAct(p)
        activePlayers == Filter(g.players, canAct)
        canRaise(p) == p.chipStack > 0 /\ p.currentBet = g.currentBetAmount
        playersWhoCanRaise == Filter(activePlayers, canRaise)
    IN  IF Len(activePlayers) <= 1 THEN TRUE
        ELSE Len(playersWhoCanRaise) <= 1

\* the do-while loop of nextPlayer
Game_nextPlayer(g) ==
    LET n == Len(Game_activePlayers(g))
    IN  IF ~Game_someoneCanAct(g) THEN Hang(g)
        ELSE Ok([g EXCEPT !.activePlayerPosition =
                    Game_scan(g, (g.activePlayerPosition + 1) % n)])

RECURSIVE Game_dealCommunity(_, _)
Game_dealCommunity(g, count) ==
    IF count = 0 THEN g
    ELSE LET d == Deck_dealCard(g.deck)
         IN  Game_dealCommunity([g EXCEPT !.deck = d.deck,
                                          !.communityCards = Append(@, d.card)],
                                count - 1)

\* a deal that lays the burn card on the board with the others
Game_dealCommunityCardsBurnShown(g, count) ==
    Game_dealCommunity(g, count + 1)

Game_dealCommunityCards(g, count) ==
    LET burn == Deck_dealCard(g.deck)
    IN  Game_dealCommunity([g EXCEPT !.deck = burn.deck], count)

\* a.rank beats b.rank in the sort of evaluateHands (best first): the
\* comparator returns b.rank.value - a.rank.value, or b.rank.high - a.rank.high
\* (a subtraction, so a string is read as a number)
RankAbove(a, b) ==
    IF a.value # b.value THEN a.value > b.value
    ELSE Js_toNumber(a.high) > Js_toNumber(b.high)

\* h.rank.value === bestRank.value && h.rank.high === bestRank.high: a string
\* and a number are never ===
RankEqual(a, b) == a.value = b.value /\ a.high = b.high

\* evaluateHands for one result `rank` of findBestHand (player id -> rank)
Game_evaluateHandsWith(g, rank) ==
    LET ids == g.playersInHand
        isBest(id) == \A i \in 1..Len(ids) : ~RankAbove(rank[ids[i]], rank[id])
        winners == Filter(ids, isBest)
    IN  [g EXCEPT !.winners =
            [i \in 1..Len(winners) |->
                [playerId |-> winners[i],
                 amount |-> g.pot.mainPot \div Len(winners),
                 handType |-> rank[winners[i]].type]]]

\* the results of findBestHand(player.holeCards, this.communityCards) for the
\* players in the hand: any results when the cards are not followed, the
\* results for the cards dealt when they are
Game_bestHands(g) ==
    IF bestHands = <<>> THEN [Range(g.playersInHand) -> HandRanks]
    ELSE { [id \in Range(g.playersInHand) |-> bestHands[Game_indexOf(g, id)]] }

\* playerHands[0].rank of an empty array throws a TypeError
Game_evaluateHands(g) ==
    IF g.playersInHand = <<>> THEN {Throw(g, "TypeError")}
    ELSE { Ok(Game_evaluateHandsWith(g, rank)) : rank \in Game_bestHands(g) }

RECURSIVE Game_credit(_, _)
Game_credit(g, winners) ==
    IF winners = <<>> THEN g
    ELSE LET player == Game_getPlayer(g, Head(winners).playerId)
         IN  Game_credit(Game_setPlayer(g, [player EXCEPT !.chipStack = @ + Head(winners).amount]),
                         Tail(winners))

Game_distributePot(g) == Game_credit(g, g.winners)

Game_processShowdown(g) ==
    LET activePlayers == Game_activePlayers(g)
        evaluated ==
            IF Len(activePlayers) = 1
            THEN { Ok([g EXCEPT !.winners = << [playerId |-> activePlayers[1].playerId,
                                                 amount |-> g.pot.mainPot,
                                                 handType |-> "unopposed"] >>]) }
            ELSE Game_evaluateHands(g)
    IN  { IF r.fault # "none" THEN r
          ELSE [g |-> [Game_distributePot(r.g) EXCEPT !.gamePhase = "hand-complete"],
                fault |-> "none", timer |-> TRUE] : r \in evaluated }

Game_nextPhase(g) ==
    LET g1 == [g EXCEPT !.players = [i \in 1..Len(g.players) |->
                                        [g.players[i] EXCEPT !.currentBet = 0]],
                        !.currentBetAmount = 0,
                        !.minimumRaise = gameSettings.bigBlind]
    IN  CASE g1.gamePhase = "pre-flop" ->
               {Game_setFirstPlayerToAct(
                   Game_dealCommunityCards([g1 EXCEPT !.gamePhase = "flop"], 3))}
          [] g1.gamePhase = "flop" ->
               {Game_setFirstPlayerToAct(
                   Game_dealCommunityCards([g1 EXCEPT !.gamePhase = "turn"], 1))}
          [] g1.gamePhase = "turn" ->
               {Game_setFirstPlayerToAct(
                   Game_dealCommunityCards([g1 EXCEPT !.gamePhase = "river"], 1))}
          [] g1.gamePhase = "river" ->
               Game_processShowdown([g1 EXCEPT !.gamePhase = "showdown"])
          [] OTHER -> {Game_setFirstPlayerToAct(g1)}

\* the part of playerAction after the switch
Game_afterAction(g, playerId, finalActionType, actualAmount) ==
    LET g1 == Game_recordAction(g, playerId, finalActionType, actualAmount)
    IN  IF Game_isBettingRoundComplete(g1) THEN Game_nextPhase(g1)
        ELSE {Game_nextPlayer(g1)}

Game_betOrRaise(g, playerId, actionType, amount) ==
    LET player == Game_getPlayer(g, playerId)
        callAmount == g.currentBetAmount - player.currentBet
        totalAmount == callAmount + amount
        allIn == totalAmount > player.chipStack
        actualAmount == IF allIn THEN player.chipStack ELSE totalAmount
        finalActionType == IF allIn THEN "all-in" ELSE actionType
    IN  IF g.currentBetAmount > 0 /\ actionType = "bet"
        THEN {Throw(g, "Cannot bet, must call or raise")}
        ELSE IF actualAmount < g.minimumRaise + callAmount /\ actualAmount # player.chipStack
        THEN {Throw(g, "Minimum raise")}
        ELSE LET bettor == Player_bet(player, actualAmount)
                 g1 == Game_setPlayer(g, bettor)
                 g2 == [g1 EXCEPT !.pot.mainPot = @ + actualAmount,
                                  !.currentBetAmount = bettor.currentBet,
                                  !.minimumRaise = actualAmount - callAmount]
             IN  Game_afterAction(g2, playerId, finalActionType, actualAmount)

\* a call whose chips leave the stack but never reach the pot
Game_callPotForgotten(g, playerId) ==
    LET player == Game_getPlayer(g, playerId)
        actualAmount == Min(g.currentBetAmount - player.currentBet, player.chipStack)
        caller == Player_bet(player, actualAmount)
        g1 == Game_setPlayer(g, caller)
        finalActionType ==
            IF actualAmount = caller.chipStack /\ caller.chipStack > 0
            THEN "all-in" ELSE "call"
    IN  Game_afterAction(g1, playerId, finalActionType, actualAmount)

\* a call that pays the whole difference to the table bet, whatever the
\* stack holds
Game_callUncapped(g, playerId) ==
    LET player == Game_getPlayer(g, playerId)
        actualAmount == g.currentBetAmount - player.currentBet
        caller == Player_betUncapped(player, actualAmount)
        g1 == Game_setPlayer(g, caller)
        g2 == [g1 EXCEPT !.pot.mainPot = @ + actualAmount]
    IN  Game_afterAction(g2, playerId, "call", actualAmount)

Game_call(g, playerId) ==
    LET player == Game_getPlayer(g, playerId)
        actualAmount == Min(g.currentBetAmount - player.currentBet, player.chipStack)
        caller == Player_bet(player, actualAmount)
        g1 == Game_setPlayer(g, caller)
        g2 == [g1 EXCEPT !.pot.mainPot = @ + actualAmount]
        finalActionType ==
            IF actualAmount = caller.chipStack /\ caller.chipStack > 0
            THEN "all-in" ELSE "call"
    IN  Game_afterAction(g2, playerId, finalActionType, actualAmount)

\* a check that is recorded before the table bet is tested
Game_checkRecordedFirst(g, playerId) ==
    LET g1 == Game_recordAction(g, playerId, "check", 0)
    IN  IF Game_getPlayer(g, playerId).currentBet < g.currentBetAmount
        THEN {Throw(g1, "Cannot check, must call or fold")}
        ELSE Game_afterAction(g, playerId, "check", 0)

Game_check(g, playerId) ==
    IF Game_getPlayer(g, playerId).currentBet < g.currentBetAmount
    THEN {Throw(g, "Cannot check, must call or fold")}
    ELSE Game_afterAction(g, playerId, "check", 0)

Game_fold(g, playerId) ==
    LET g1 == Game_setPlayer(g, Player_fold(Game_getPlayer(g, playerId)))
        stays(id) == id # playerId
        g2 == [g1 EXCEPT !.playersInHand = Filter(@, stays)]
    IN  Game_afterAction(g2, playerId, "fold", 0)

\* the set of outcomes of playerAction(playerId, actionType, amount): one
\* outcome, or one per result of findBestHand when the call reaches evaluateHands
Game_playerAction(g, playerId, actionType, amount) ==
    IF ~Game_hasPlayer(g, playerId) THEN {Throw(g, "Player not found")}
    ELSE LET activePlayers == Game_activePlayers(g)
             position == g.activePlayerPosition
         IN  IF \/ position \notin 0..(Len(activePlayers) - 1)
                \/ activePlayers[position + 1].playerId # playerId
             THEN {Throw(g, "Not your turn")}
             ELSE IF ~Game_canPlayerAct(g, Game_getPlayer(g, playerId))
             THEN {Throw(g, "Player cannot act")}
             ELSE CASE actionType = "fold" -> Game_fold(g, playerId)
                    [] actionType = "check" -> Game_check(g, playerId)
                    [] actionType = "call" -> Game_call(g, playerId)
                    [] actionType \in {"bet", "raise"} ->
                           Game_betOrRaise(g, playerId, actionType, amount)
                    [] OTHER -> {Throw(g, "Invalid action type")}

Game_shouldContinueGame(g) ==
    LET hasChips(p) == p.chipStack > 0
    IN  Len(Filter(g.players, hasChips)) > 1

----------------------------------------------------------------------------
(* LocalGame (client/js/game/localGame.js) *)

LocalPlayer(i) ==
    [ id |-> i, position |-> i, chips |-> gameSettings.startingChips,
      holeCards |-> <<>>, currentBet |-> 0, totalBetThisHand |-> 0,
      status |-> "active" ]

\* new LocalGame(playerNames, settings) for n names
NewLocalGame(n) ==
    [ players |-> [i \in 1..n |-> LocalPlayer(i - 1)],
      deck |-> 52, communityCards |-> <<>>, pot |-> 0,
      currentBetAmount |-> 0, minimumRaise |-> gameSettings.bigBlind,
      dealerIndex |-> 0, activePlayerIndex |-> 0, currentHand |-> 0,
      gamePhase |-> "waiting", winners |-> <<>>, sidePots |-> <<>>,
      handHistory |-> 0, actedThisRound |-> {} ]

\* this.players[index], for an index of the array
LocalGame_player(l, index) == l.players[index + 1]

LocalGame_indexes(l) == 0..(Len(l.players) - 1)

LocalGame_activePlayers(l) ==
    { i \in LocalGame_indexes(l) : LocalGame_player(l, i).status # "sitting-out" }

LocalGame_playersInHand(l) ==
    { i \in LocalGame_indexes(l) : LocalGame_player(l, i).status \in {"active", "all-in"} }

\* the for loop of _nextActiveIndex: step i of at most players.length steps
RECURSIVE LocalGame_nextActiveFrom(_, _, _, _)
LocalGame_nextActiveFrom(l, fromIndex, idx, i) ==
    IF i >= Len(l.players) THEN fromIndex
    ELSE LET next == (idx + 1) % Len(l.players)
         IN  IF LocalGame_player(l, next).status = "active" THEN next
             ELSE LocalGame_nextActiveFrom(l, fromIndex, next, i + 1)

LocalGame_nextActiveIndex(l, fromIndex) ==
    LocalGame_nextActiveFrom(l, fromIndex, fromIndex, 0)

LocalGame_smallBlindIndex(l) ==
    IF Cardinality(LocalGame_activePlayers(l)) = 2 THEN l.dealerIndex
    ELSE LocalGame_nextActiveIndex(l, l.dealerIndex)

LocalGame_bigBlindIndex(l) ==
    LocalGame_nextActiveIndex(l, LocalGame_smallBlindIndex(l))

LocalGame_placeBet(l, index, amount) ==
    LET player == LocalGame_player(l, index)
        actual == Min(amount, player.chips)
        chips == player.chips - actual
    IN  [l EXCEPT !.players[index + 1] =
                     [player EXCEPT !.chips = chips,
                                    !.currentBet = @ + actual,
                                    !.totalBetThisHand = @ + actual,
                                    !.status = IF chips = 0 /\ player.status = "active"
                                               THEN "all-in" ELSE @],
                  !.pot = @ + actual]

RECURSIVE LocalGame_dealTo(_, _)
LocalGame_dealTo(l, index) ==
    IF index >= Len(l.players) THEN l
    ELSE IF LocalGame_player(l, index).status = "sitting-out"
         THEN LocalGame_dealTo(l, index + 1)
         ELSE LET d == Deck_dealCard(l.deck)
              IN  LocalGame_dealTo([l EXCEPT !.deck = d.deck,
                                             !.players[index + 1].holeCards = Append(@, d.card)],
                                   index + 1)

LocalGame_dealHoleCards(l) == LocalGame_dealTo(LocalGame_dealTo(l, 0), 0)

LocalGame_postBlinds(l) ==
    LET sb == LocalGame_smallBlindIndex(l)
        bb == LocalGame_bigBlindIndex(l)
        sbAmount == Min(gameSettings.smallBlind, LocalGame_player(l, sb).chips)
        l1 == LocalGame_placeBet(l, sb, sbAmount)
        bbAmount == Min(gameSettings.bigBlind, LocalGame_player(l1, bb).chips)
        l2 == LocalGame_placeBet(l1, bb, bbAmount)
    IN  [l2 EXCEPT !.currentBetAmount = bbAmount]

LocalGame_startNewHand(l) ==
    LET l1 == [l EXCEPT !.currentHand = @ + 1, !.communityCards = <<>>, !.pot = 0,
                        !.currentBetAmount = 0,
                        !.minimumRaise = gameSettings.bigBlind,
                        !.winners = <<>>, !.sidePots = <<>>, !.handHistory = 0,
                        !.actedThisRound = {}]
        reset(p) == [p EXCEPT !.holeCards = <<>>, !.currentBet = 0,
                              !.totalBetThisHand = 0,
                              !.status = IF p.chips > 0 THEN "active" ELSE "sitting-out"]
        l2 == [l1 EXCEPT !.players = [i \in 1..Len(l1.players) |-> reset(l1.players[i])]]
    IN  IF Cardinality(LocalGame_activePlayers(l2)) < 2
        THEN [l2 EXCEPT !.gamePhase = "hand-complete"]
        ELSE LET l3 == IF l2.currentHand > 1
                       THEN [l2 EXCEPT !.dealerIndex = LocalGame_nextActiveIndex(l2, l2.dealerIndex)]
                       ELSE l2
                 l4 == [l3 EXCEPT !.deck = 52]
                 l5 == LocalGame_dealHoleCards(l4)
                 l6 == LocalGame_postBlinds(l5)
                 l7 == [l6 EXCEPT !.gamePhase = "pre-flop"]
                 bbIdx == LocalGame_bigBlindIndex(l7)
             IN  [l7 EXCEPT !.activePlayerIndex = LocalGame_nextActiveIndex(l7, bbIdx)]

LocalGame_startGame(l) ==
    IF Len(l.players) < 2 THEN Throw(l, "Need at least 2 players")
    ELSE Ok(LocalGame_startNewHand(l))

LocalGame_advanceToNextPlayer(l) ==
    [l EXCEPT !.activePlayerIndex = LocalGame_nextActiveIndex(l, l.activePlayerIndex)]

LocalGame_isBettingRoundComplete(l) ==
    LET active == { i \in LocalGame_indexes(l) : LocalGame_player(l, i).status = "active" }
        allActed == \A i \in active : i \in l.actedThisRound
        betsEqual == \A i \in active : LocalGame_player(l, i).currentBet = l.currentBetAmount
    IN  IF active = {} THEN TRUE ELSE allActed /\ betsEqual

RECURSIVE LocalGame_dealCommunity(_, _)
LocalGame_dealCommunity(l, count) ==
    IF count = 0 THEN l
    ELSE LET d == Deck_dealCard(l.deck)
         IN  LocalGame_dealCommunity([l EXCEPT !.deck = d.deck,
                                               !.communityCards = Append(@, d.card)],
                                     count - 1)

\* a deal that reveals the cards without burning one first
LocalGame_dealCommunityCardsNoBurn(l, count) ==
    LocalGame_dealCommunity(l, count)

LocalGame_dealCommunityCards(l, count) ==
    LET burn == Deck_dealCard(l.deck)
    IN  LocalGame_dealCommunity([l EXCEPT !.deck = burn.deck], count)

\* a peeling that makes only the players still in the hand pay into a pot
RECURSIVE LocalGame_peelPotsOfContestants(_, _)
LocalGame_peelPotsOfContestants(l, processed) ==
    LET contribs == { i \in LocalGame_indexes(l) : LocalGame_player(l, i).totalBetThisHand > 0 }
        above == { i \in contribs : LocalGame_player(l, i).totalBetThisHand > processed }
    IN  IF above = {} THEN <<>>
        ELSE LET level == CHOOSE t \in { LocalGame_player(l, i).totalBetThisHand : i \in above } :
                             \A i \in above : t <= LocalGame_player(l, i).totalBetThisHand
                 increment == level - processed
                 contributors == { i \in contribs : LocalGame_player(l, i).totalBetThisHand >= level }
                 eligible == contributors \cap LocalGame_playersInHand(l)
                 potAmount == increment * Cardinality(eligible)
             IN  <<[amount |-> potAmount, eligible |-> eligible]>>
                     \o LocalGame_peelPotsOfContestants(l, level)

\* the distinct positive levels of totalBetThisHand above `processed`, peeled in
\* ascending order (the loop over the sorted contribs, duplicates skipped)
RECURSIVE LocalGame_peelPots(_, _)
LocalGame_peelPots(l, processed) ==
    LET contribs == { i \in LocalGame_indexes(l) : LocalGame_player(l, i).totalBetThisHand > 0 }
        above == { i \in contribs : LocalGame_player(l, i).totalBetThisHand > processed }
    IN  IF above = {} THEN <<>>
        ELSE LET level == CHOOSE t \in { LocalGame_player(l, i).totalBetThisHand : i \in above } :
                             \A i \in above : t <= LocalGame_player(l, i).totalBetThisHand
                 increment == level - processed
                 contributors == { i \in contribs : LocalGame_player(l, i).totalBetThisHand >= level }
                 potAmount == increment * Cardinality(contributors)
                 eligible == contributors \cap LocalGame_playersInHand(l)
             IN  <<[amount |-> potAmount, eligible |-> eligible]>>
                     \o LocalGame_peelPots(l, level)

LocalGame_calculateSidePots(l) == LocalGame_peelPots(l, 0)

\* evaluated.sort(best first) is a stable sort: players of equal rank stay in
\* seat order.  The sorted indexes of the set `s`
RECURSIVE SortBestFirst(_, _)
SortBestFirst(s, rank) ==
    IF s = {} THEN <<>>
    ELSE LET first == CHOOSE i \in s :
                 \A j \in s \ {i} : \/ RankAbove(rank[i], rank[j])
                                    \/ (RankEqual(rank[i], rank[j]) /\ i < j)
         IN  <<first>> \o SortBestFirst(s \ {first}, rank)

\* winMap after the potWinners `ws` (a sequence) each got `share`
RECURSIVE LocalGame_addToWinMap(_, _, _, _)
LocalGame_addToWinMap(winMap, ws, share, rank) ==
    IF ws = <<>> THEN winMap
    ELSE LET w == Head(ws)
             known == \E k \in 1..Len(winMap) : winMap[k].playerIndex = w
             next == IF known
                     THEN [k \in 1..Len(winMap) |->
                              IF winMap[k].playerIndex = w
                              THEN [winMap[k] EXCEPT !.amount = @ + share]
                              ELSE winMap[k]]
                     ELSE Append(winMap, [playerIndex |-> w, amount |-> share,
                                          handType |-> rank[w].type])
         IN  LocalGame_addToWinMap(next, Tail(ws), share, rank)

\* the loop `for (const pot of sidePots)` of _resolveHand
RECURSIVE LocalGame_distribute(_, _, _, _)
LocalGame_distribute(l, pots, evaluated, rank) ==
    IF pots = <<>> THEN l
    ELSE LET pot == Head(pots)
             isEligible(i) == i \in pot.eligible
             eligibleEval == Filter(evaluated, isEligible)
         IN  IF eligibleEval = <<>>
             THEN LocalGame_distribute(l, Tail(pots), evaluated, rank)
             ELSE LET bestRank == rank[eligibleEval[1]]
                      ties(i) == RankEqual(rank[i], bestRank)
                      potWinners == Filter(eligibleEval, ties)
                      share == pot.amount \div Len(potWinners)
                      l1 == [l EXCEPT
                               !.players = [k \in 1..Len(l.players) |->
                                   IF Includes(potWinners, k - 1)
                                   THEN [l.players[k] EXCEPT !.chips = @ + share]
                                   ELSE l.players[k]],
                               !.winners = LocalGame_addToWinMap(@, potWinners, share, rank)]
                  IN  LocalGame_distribute(l1, Tail(pots), evaluated, rank)

\* the run-out loop of _resolveHand: a burn and a community card until five lie
RECURSIVE LocalGame_runOut(_)
LocalGame_runOut(l) ==
    IF Len(l.communityCards) >= 5 THEN l
    ELSE LET burn == Deck_dealCard(l.deck)
             d == Deck_dealCard(burn.deck)
         IN  LocalGame_runOut([l EXCEPT !.deck = d.deck,
                                        !.communityCards = Append(@, d.card)])

\* the showdown branch of _resolveHand for one result `rank` of findBestHand
LocalGame_showdownWith(l, rank) ==
    LET l1 == LocalGame_runOut(l)
        evaluated == SortBestFirst(LocalGame_playersInHand(l1), rank)
        sidePots == LocalGame_calculateSidePots(l1)
        l2 == [l1 EXCEPT !.sidePots = sidePots, !.winners = <<>>]
    IN  LocalGame_distribute(l2, sidePots, evaluated, rank)

\* the results of findBestHand(p.holeCards, this.communityCards) for the players
\* in the hand, as in Game_bestHands
LocalGame_bestHands(l) ==
    IF bestHands = <<>> THEN [LocalGame_playersInHand(l) -> HandRanks]
    ELSE { [i \in LocalGame_playersInHand(l) |-> bestHands[i + 1]] }

\* the set of outcomes of _resolveHand, one per result of findBestHand
LocalGame_resolveHand(l) ==
    LET inHand == LocalGame_playersInHand(l)
        resolved ==
            IF Cardinality(inHand) = 1
            THEN LET winner == CHOOSE i \in inHand : TRUE
                 IN  { [l EXCEPT !.winners = << [playerIndex |-> winner, amount |-> l.pot,
                                                 handType |-> "unopposed"] >>,
                                 !.players[winner + 1].chips = @ + l.pot] }
            ELSE { LocalGame_showdownWith(l, rank) : rank \in LocalGame_bestHands(l) }
    IN  { [r EXCEPT !.gamePhase = "showdown"] : r \in resolved }

LocalGame_firstToActPostFlop(l) ==
    LET sbIdx == LocalGame_smallBlindIndex(l)
    IN  IF LocalGame_player(l, sbIdx).status = "active"
        THEN [l EXCEPT !.activePlayerIndex = sbIdx]
        ELSE [l EXCEPT !.activePlayerIndex = LocalGame_nextActiveIndex(l, sbIdx)]

LocalGame_nextPhase(l) ==
    LET l1 == [l EXCEPT !.players = [i \in 1..Len(l.players) |->
                                        [l.players[i] EXCEPT !.currentBet = 0]],
                        !.currentBetAmount = 0,
                        !.minimumRaise = gameSettings.bigBlind,
                        !.actedThisRound = {}]
    IN  CASE l1.gamePhase = "pre-flop" ->
               {LocalGame_firstToActPostFlop(
                   LocalGame_dealCommunityCards([l1 EXCEPT !.gamePhase = "flop"], 3))}
          [] l1.gamePhase = "flop" ->
               {LocalGame_firstToActPostFlop(
                   LocalGame_dealCommunityCards([l1 EXCEPT !.gamePhase = "turn"], 1))}
          [] l1.gamePhase = "turn" ->
               {LocalGame_firstToActPostFlop(
                   LocalGame_dealCommunityCards([l1 EXCEPT !.gamePhase = "river"], 1))}
          [] l1.gamePhase = "river" -> LocalGame_resolveHand(l1)
          [] OTHER -> {LocalGame_firstToActPostFlop(l1)}

\* the part of playerAction after the switch
LocalGame_afterAction(l, playerIndex) ==
    LET l1 == [l EXCEPT !.actedThisRound = @ \cup {playerIndex},
                        !.handHistory = @ + 1]
    IN  IF Cardinality(LocalGame_playersInHand(l1)) <= 1
        THEN { Ok(r) : r \in LocalGame_resolveHand(l1) }
        ELSE IF LocalGame_isBettingRoundComplete(l1)
             THEN { Ok(r) : r \in LocalGame_nextPhase(l1) }
             ELSE { Ok(LocalGame_advanceToNextPlayer(l1)) }

LocalGame_betOrRaise(l, playerIndex, amount) ==
    LET player == LocalGame_player(l, playerIndex)
        callPart == l.currentBetAmount - player.currentBet
        allIn == callPart + amount > player.chips
        total == IF allIn THEN player.chips ELSE callPart + amount
    IN  IF ~allIn /\ amount < l.minimumRaise /\ total # player.chips
        THEN {Throw(l, "Minimum raise")}
        ELSE LET l1 == LocalGame_placeBet(l, playerIndex, total)
                 l2 == [l1 EXCEPT !.currentBetAmount = LocalGame_player(l1, playerIndex).currentBet,
                                  !.minimumRaise = Max(l1.minimumRaise, total - callPart),
                                  !.actedThisRound = {}]
             IN  LocalGame_afterAction(l2, playerIndex)

LocalGame_call(l, playerIndex) ==
    LET player == LocalGame_player(l, playerIndex)
        toCall == Min(l.currentBetAmount - player.currentBet, player.chips)
    IN  LocalGame_afterAction(LocalGame_placeBet(l, playerIndex, toCall), playerIndex)

LocalGame_check(l, playerIndex) ==
    IF LocalGame_player(l, playerIndex).currentBet < l.currentBetAmount
    THEN {Throw(l, "Cannot check - must call or fold")}
    ELSE LocalGame_afterAction(l, playerIndex)

\* peekHoleCards(playerIndex); null is the empty sequence, viewCount is not
\* part of the model
LocalGame_peekHoleCards(l, playerIndex) ==
    IF playerIndex + 1 \notin DOMAIN l.players
       \/ Len(LocalGame_player(l, playerIndex).holeCards) < 2
    THEN <<>>
    ELSE LocalGame_player(l, playerIndex).holeCards

LocalGame_fold(l, playerIndex) ==
    LocalGame_afterAction([l EXCEPT !.players[playerIndex + 1].status = "folded"],
                          playerIndex)

\* the set of outcomes of playerAction(playerIndex, actionType, amount)
LocalGame_playerAction(l, playerIndex, actionType, amount) ==
    IF playerIndex \notin LocalGame_indexes(l) THEN {Throw(l, "Invalid player")}
    ELSE IF playerIndex # l.activePlayerIndex THEN {Throw(l, "Not your turn")}
    ELSE IF LocalGame_player(l, playerIndex).status # "active"
    THEN {Throw(l, "Player cannot act")}
    ELSE CASE actionType = "fold" -> LocalGame_fold(l, playerIndex)
           [] actionType = "check" -> LocalGame_check(l, playerIndex)
           [] actionType = "call" -> LocalGame_call(l, playerIndex)
           [] actionType \in {"bet", "raise"} -> LocalGame_betOrRaise(l, playerIndex, amount)
           [] OTHER -> {Throw(l, "Invalid action")}

LocalGame_nextHand(l) ==
    LET withChips == { i \in LocalGame_indexes(l) : LocalGame_player(l, i).chips > 0 }
    IN  IF Cardinality(withChips) < 2 THEN [l EXCEPT !.gamePhase = "hand-complete"]
        ELSE LocalGame_startNewHand(l)

----------------------------------------------------------------------------
(* Room (shared/room.js) and RoomManager (server/roomManager.js) *)

\* the value of `userId` when getRoomState() is called without arguments
nullUserId == 0 - 1

\* a room whose lobby n users have joined (Room.addPlayer) and declared
\* themselves ready; socketId is "socket" (some open socket) or "null"
NewRoom(n) ==
    [ hostUserId |-> 0, currentPlayers |-> n,
      status |-> "waiting", game |-> "null",
      players |-> [i \in 1..n |->
                      [userId |-> i - 1, socketId |-> "socket", isReady |-> TRUE,
                       isHost |-> (i - 1 = 0)]] ]

\* new RoomManager() after createRoom: rooms holds the room
NewRoomManager == [rooms |-> {"room"}]

\* the outcome of a method of Room: the room and its game as the method left
\* them, and the fault and timer of the outcomes of Game
RoomOutcome(r, outcome) ==
    [room |-> r, g |-> outcome.g, fault |-> outcome.fault, timer |-> outcome.timer]

\* this.players.has(userId)
Room_isPlayer(r, userId) == \E i \in 1..Len(r.players) : r.players[i].userId = userId

\* the place of this.players.get(userId) in the Map
Room_playerIndex(r, userId) == CHOOSE i \in 1..Len(r.players) : r.players[i].userId = userId

Room_canStartGame(r) ==
    IF r.currentPlayers < 2 THEN "Need at least 2 players"
    ELSE IF \E i \in 1..Len(r.players) : ~r.players[i].isReady
    THEN "All players must be ready"
    ELSE "canStart"

\* the loop of startGame: game.addPlayer(userId, displayName, position++)
RECURSIVE Room_addPlayers(_, _)
Room_addPlayers(g, players) ==
    IF players = <<>> THEN g
    ELSE Room_addPlayers(Game_addPlayer(g, Head(players).userId).g, Tail(players))

Room_startGame(r, g) ==
    IF Room_canStartGame(r) # "canStart" THEN RoomOutcome(r, Throw(g, Room_canStartGame(r)))
    ELSE RoomOutcome([r EXCEPT !.status = "in-progress", !.game = "game"],
                     Game_startGame(Room_addPlayers(NewGame, r.players)))

\* the set of outcomes of Room.playerAction(userId, actionType, amount)
Room_playerAction(r, g, userId, actionType, amount) ==
    IF r.game = "null" THEN {Throw(g, "No active game")}
    ELSE IF r.status # "in-progress" THEN {Throw(g, "Game not in progress")}
    ELSE IF ~Room_isPlayer(r, userId) THEN {Throw(g, "Player not in room")}
    ELSE Game_playerAction(g, userId, actionType, amount)

\* Game.getGameState(excludePrivateInfo): the fields that tell the cards
Game_getGameState(g, excludePrivateInfo) ==
    [ gamePhase |-> g.gamePhase,
      communityCards |-> g.communityCards,
      players |-> [i \in 1..Len(g.players) |->
                      [g.players[i] EXCEPT !.holeCards =
                          IF excludePrivateInfo THEN <<>> ELSE @]] ]

\* the `game` of Room.getRoomState(userId, includePrivateInfo)
Room_getRoomState(r, g, userId, includePrivateInfo) ==
    LET isPlayer == userId # nullUserId /\ Room_isPlayer(r, userId)
    IN  IF r.game = "null" THEN [gamePhase |-> "null", communityCards |-> <<>>, players |-> <<>>]
        ELSE Game_getGameState(g, ~includePrivateInfo \/ ~isPlayer)

\* Room.updatePlayerSocket(userId, socketId) for a player of the room
Room_updatePlayerSocket(r, g, userId) ==
    LET r1 == [r EXCEPT !.players[Room_playerIndex(r, userId)].socketId = "socket"]
    IN  IF r.game # "null" /\ Game_hasPlayer(g, userId)
        THEN LET gamePlayer == Game_getPlayer(g, userId)
                 back == [gamePlayer EXCEPT
                            !.isConnected = TRUE,
                            !.status = IF @ = "sitting-out" /\ gamePlayer.chipStack > 0
                                       THEN "active" ELSE @]
             IN  [room |-> r1, g |-> Game_setPlayer(g, back)]
        ELSE [room |-> r1, g |-> g]

\* new Room(hostUserId, roomName, gameSettings)
Room_new(hostUserId) ==
    [ hostUserId |-> hostUserId, currentPlayers |-> 0,
      status |-> "waiting", game |-> "null", players |-> <<>> ]

\* Room.addPlayer without its test of the number of players
Room_addPlayerWhenFull(r, userId, socketId) ==
    IF Room_isPlayer(r, userId) THEN [room |-> r, fault |-> "Player already in room"]
    ELSE IF r.status = "in-progress" THEN [room |-> r, fault |-> "Cannot join game in progress"]
    ELSE LET playerInfo == [userId |-> userId, socketId |-> socketId, isReady |-> FALSE,
                            isHost |-> (userId = r.hostUserId)]
         IN  [room |-> [r EXCEPT !.players = Append(@, playerInfo),
                                 !.currentPlayers = @ + 1],
              fault |-> "none"]

\* Room.addPlayer(userId, displayName, socketId): the room it leaves and the
\* error it throws
Room_addPlayer(r, userId, socketId) ==
    IF r.currentPlayers >= gameSettings.maxPlayers THEN [room |-> r, fault |-> "Room is full"]
    ELSE IF Room_isPlayer(r, userId) THEN [room |-> r, fault |-> "Player already in room"]
    ELSE IF r.status = "in-progress" THEN [room |-> r, fault |-> "Cannot join game in progress"]
    ELSE LET playerInfo == [userId |-> userId, socketId |-> socketId, isReady |-> FALSE,
                            isHost |-> (userId = r.hostUserId)]
         IN  [room |-> [r EXCEPT !.players = Append(@, playerInfo),
                                 !.currentPlayers = @ + 1],
              fault |-> "none"]

\* this.players.delete(userId): the Map keeps the order of insertion
Room_deletePlayer(players, userId) ==
    LET Kept(p) == p.userId # userId
    IN  SelectSeq(players, Kept)

\* Room.removePlayer without the transfer of ownership
Room_removePlayerKeepingHost(r, g, userId) ==
    IF ~Room_isPlayer(r, userId) THEN [room |-> r, g |-> g, removed |-> FALSE]
    ELSE LET r1 == [r EXCEPT !.players = Room_deletePlayer(@, userId),
                             !.currentPlayers = @ - 1]
             r3 == IF r1.currentPlayers = 0 THEN [r1 EXCEPT !.status = "completed"] ELSE r1
         IN  [room |-> r3, g |-> g, removed |-> TRUE]

\* Room.removePlayer(userId): the room and the game it leaves, and what it returns
Room_removePlayer(r, g, userId) ==
    IF ~Room_isPlayer(r, userId) THEN [room |-> r, g |-> g, removed |-> FALSE]
    ELSE LET r1 == [r EXCEPT !.players = Room_deletePlayer(@, userId),
                             !.currentPlayers = @ - 1]
             g1 == IF r1.game # "null" /\ r1.status = "in-progress" /\ Game_hasPlayer(g, userId)
                   THEN Game_setPlayer(g, [Game_getPlayer(g, userId) EXCEPT
                                              !.isConnected = FALSE,
                                              !.status = "sitting-out"])
                   ELSE g
             r2 == IF userId = r1.hostUserId /\ r1.currentPlayers > 0
                   THEN [r1 EXCEPT !.hostUserId = r1.players[1].userId,
                                   !.players[1].isHost = TRUE]
                   ELSE r1
             r3 == IF r2.currentPlayers = 0 THEN [r2 EXCEPT !.status = "completed"] ELSE r2
         IN  [room |-> r3, g |-> g1, removed |-> TRUE]

\* Room.updatePlayerReady(userId, isReady)
Room_updatePlayerReady(r, userId, isReady) ==
    IF Room_isPlayer(r, userId)
    THEN [r EXCEPT !.players[Room_playerIndex(r, userId)].isReady = isReady]
    ELSE r

\* Room.shouldCleanup(): inactiveTime is the age of the room, `old` says that
\* it is more than 24 hours
Room_shouldCleanup(r, old) ==
    r.status = "completed" \/ (r.currentPlayers = 0 /\ old)

\* RoomManager.createRoom(hostUserId, displayName, roomName, gameSettings):
\* the room it registers
RoomManager_createRoom(hostUserId) ==
    Room_addPlayer(Room_new(hostUserId), hostUserId, "null").room

\* RoomManager.deleteRoom(roomId)
RoomManager_deleteRoom(rm) == [rm EXCEPT !.rooms = @ \ {"room"}]

\* RoomManager.joinRoom(roomId, userId, displayName, socketId): a player of
\* the room joins again with a new socket, any other user is added
RoomManager_joinRoom(rm, r, g, userId) ==
    IF "room" \notin rm.rooms THEN [room |-> r, g |-> g, fault |-> "Room not found"]
    ELSE IF Room_isPlayer(r, userId)
    THEN LET back == Room_updatePlayerSocket(r, g, userId)
         IN  [room |-> back.room, g |-> back.g, fault |-> "none"]
    ELSE LET added == Room_addPlayer(r, userId, "socket")
         IN  [room |-> added.room, g |-> g, fault |-> added.fault]

\* RoomManager.leaveRoom(roomId, userId)
RoomManager_leaveRoom(rm, r, g, userId, old) ==
    IF "room" \notin rm.rooms THEN [roomManager |-> rm, room |-> r, g |-> g, removed |-> FALSE]
    ELSE LET left == Room_removePlayer(r, g, userId)
         IN  [ roomManager |-> IF left.removed /\ Room_shouldCleanup(left.room, old)
                               THEN RoomManager_deleteRoom(rm) ELSE rm,
               room |-> left.room, g |-> left.g, removed |-> left.removed ]

\* RoomManager.cleanup()
RoomManager_cleanup(rm, r, old) ==
    IF "room" \in rm.rooms /\ Room_shouldCleanup(r, old) THEN RoomManager_deleteRoom(rm) ELSE rm

\* RoomManager.handleDisconnection(socketId) for the socket of a player of the
\* room: `timers` are the disconnections under way; the new one carries the
\* place in game.players of the gamePlayer its timer holds, 0 when
\* handleDisconnection set no timer
RoomManager_handleDisconnection(r, g, timers, userId) ==
    LET r1 == [r EXCEPT !.players[Room_playerIndex(r, userId)].socketId = "null"]
        found == r.game # "null" /\ Game_hasPlayer(g, userId)
        gamePlayer == IF found THEN Game_indexOf(g, userId) ELSE 0
    IN  [ room |-> r1,
          g |-> IF found THEN [g EXCEPT !.players[gamePlayer].isConnected = FALSE] ELSE g,
          disconnections |-> Append(timers, [userId |-> userId, gamePlayer |-> gamePlayer]) ]

\* the callback of the setTimeout(…, 30000) of handleDisconnection
RoomManager_disconnectTimeout(g, gamePlayer) ==
    IF gamePlayer # 0 /\ ~g.players[gamePlayer].isConnected
    THEN [g EXCEPT !.players[gamePlayer].status = "sitting-out"]
    ELSE g

----------------------------------------------------------------------------
(* Operations on the server engine *)

\* Room.startGame adds the seated users one by one: game.addPlayer(userId, name, position++)
GameAddPlayer ==
    /\ engine = "Game" /\ ~hung
    /\ LET r == Game_addPlayer(game, Len(game.players))
       IN  game' = r.g
    /\ UNCHANGED <<engine, tracksLastAction, deckVars, handVars, roomManager, room, disconnections, nextHandTimer, hung, localGame>>

GameStartGame ==
    /\ engine = "Game" /\ ~hung
    /\ game.gamePhase = "waiting"
    /\ LET r == Game_startGame(game)
       IN  /\ game' = r.g
           /\ hung' = (r.fault = "hang")
    /\ UNCHANGED <<engine, tracksLastAction, deckVars, handVars, roomManager, room, disconnections, nextHandTimer, localGame>>

\* any caller, any action, any amount; a call that throws leaves the object
\* as it was at the throw
GamePlayerAction ==
    /\ engine = "Game" /\ ~hung
    /\ game.handHistory < MaxHistory
    /\ \E playerId \in Ids, actionType \in ActionTypes :
         \E amount \in AmountsOf(actionType) :
         \E r \in Game_playerAction(game, playerId, actionType, amount) :
            /\ game' = r.g
            /\ hung' = (r.fault = "hang")
            /\ nextHandTimer' = (nextHandTimer \/ r.timer)
    /\ UNCHANGED <<engine, tracksLastAction, deckVars, handVars, roomManager, room, disconnections, localGame>>

\* the callback of the setTimeout(…, 5000) of processShowdown
GameNextHandTimer ==
    /\ engine = "Game" /\ ~hung
    /\ nextHandTimer
    /\ game.currentHand < MaxHands
    /\ LET r == IF Game_shouldContinueGame(game)
                THEN Game_startNewHand(game)
                ELSE Ok(Game_endGame(game))
       IN  /\ game' = r.g
           /\ hung' = (r.fault = "hang")
    /\ nextHandTimer' = FALSE
    /\ UNCHANGED <<engine, tracksLastAction, deckVars, handVars, roomManager, room, disconnections, localGame>>

----------------------------------------------------------------------------
(* Operations on the local engine *)

\* main.js: new LocalGame(playerNames, settings) is followed by startGame()
LocalStartGame ==
    /\ engine = "LocalGame"
    /\ localGame.gamePhase = "waiting"
    /\ localGame' = LocalGame_startGame(localGame).g
    /\ UNCHANGED <<engine, tracksLastAction, deckVars, handVars, roomManager, room, disconnections, game, nextHandTimer, hung>>

\* main.js _localAction: the action buttons are shown in the betting phases
\* only (the showdown panel replaces them)
LocalPlayerAction ==
    /\ engine = "LocalGame"
    /\ localGame.gamePhase \in BettingPhases
    /\ localGame.handHistory < MaxLocalHistory
    /\ \E playerIndex \in PlayerIds, actionType \in ActionTypes :
         \E amount \in AmountsOf(actionType) :
         \E r \in LocalGame_playerAction(localGame, playerIndex, actionType, amount) :
            localGame' = r.g
    /\ UNCHANGED <<engine, tracksLastAction, deckVars, handVars, roomManager, room, disconnections, game, nextHandTimer, hung>>

\* the "next hand" button of the showdown screen
LocalNextHand ==
    /\ engine = "LocalGame"
    /\ localGame.gamePhase = "showdown"
    /\ localGame.currentHand < MaxHands
    /\ localGame' = LocalGame_nextHand(localGame)
    /\ UNCHANGED <<engine, tracksLastAction, deckVars, handVars, roomManager, room, disconnections, game, nextHandTimer, hung>>

----------------------------------------------------------------------------
(* Operations on the room of the server *)

\* the host starts the game from the lobby
RoomStartGame ==
    /\ engine = "Room" /\ ~hung
    /\ "room" \in roomManager.rooms
    /\ room.status = "waiting"
    /\ LET r == Room_startGame(room, game)
       IN  /\ room' = r.room
           /\ game' = r.g
           /\ hung' = (r.fault = "hang")
    /\ UNCHANGED <<engine, tracksLastAction, deckVars, handVars, roomManager, disconnections, nextHandTimer, localGame>>

\* server.js, POST /api/rooms/:roomId/actions: any user, any action, any amount
RoomPlayerAction ==
    /\ engine = "Room" /\ ~hung
    /\ "room" \in roomManager.rooms
    /\ game.handHistory < MaxHistory
    /\ \E userId \in UserIds \cup Ids, actionType \in ActionTypes :
         \E amount \in AmountsOf(actionType) :
         \E r \in Room_playerAction(room, game, userId, actionType, amount) :
            /\ game' = r.g
            /\ hung' = (r.fault = "hang")
            /\ nextHandTimer' = (nextHandTimer \/ r.timer)
    /\ UNCHANGED <<engine, tracksLastAction, deckVars, handVars, roomManager, room, disconnections, localGame>>

\* server.js, socket.on('disconnect'): the socket of a player of the room closes
RoomManagerHandleDisconnection ==
    /\ engine = "Room" /\ ~hung
    /\ "room" \in roomManager.rooms
    /\ Len(disconnections) < MaxDisconnections
    /\ \E i \in 1..Len(room.players) :
          /\ room.players[i].socketId = "socket"
          /\ LET r == RoomManager_handleDisconnection(room, game, disconnections,
                                                      room.players[i].userId)
             IN  /\ room' = r.room
                 /\ game' = r.g
                 /\ disconnections' = r.disconnections
    /\ UNCHANGED <<engine, tracksLastAction, deckVars, handVars, roomManager, nextHandTimer, hung, localGame>>

\* a user joins the room with a new socket: a player of the room whose socket
\* closed, or a user who is not in the room
RoomManagerJoinRoom ==
    /\ engine = "Room" /\ ~hung
    /\ \E userId \in Visitors :
          /\ Room_isPlayer(room, userId) =>
                room.players[Room_playerIndex(room, userId)].socketId = "null"
          /\ LET r == RoomManager_joinRoom(roomManager, room, game, userId)
             IN  /\ room' = r.room
                 /\ game' = r.g
    /\ UNCHANGED <<engine, tracksLastAction, deckVars, handVars, roomManager, disconnections, nextHandTimer, hung, localGame>>

\* a user declares themself ready or not ready
RoomUpdatePlayerReady ==
    /\ engine = "Room" /\ ~hung
    /\ "room" \in roomManager.rooms
    /\ \E userId \in Visitors, isReady \in BOOLEAN :
          room' = Room_updatePlayerReady(room, userId, isReady)
    /\ UNCHANGED <<engine, tracksLastAction, deckVars, handVars, roomManager, game, disconnections, nextHandTimer, hung, localGame>>

\* a user leaves the room
RoomManagerLeaveRoom ==
    /\ engine = "Room" /\ ~hung
    /\ \E userId \in Visitors, old \in BOOLEAN :
          LET r == RoomManager_leaveRoom(roomManager, room, game, userId, old)
          IN  /\ roomManager' = r.roomManager
              /\ room' = r.room
              /\ game' = r.g
    /\ UNCHANGED <<engine, tracksLastAction, deckVars, handVars, disconnections, nextHandTimer, hung, localGame>>

\* server.js: setInterval(() => roomManager.cleanup(), …)
RoomManagerCleanup ==
    /\ engine = "Room" /\ ~hung
    /\ \E old \in BOOLEAN :
          roomManager' = RoomManager_cleanup(roomManager, room, old)
    /\ UNCHANGED <<engine, tracksLastAction, deckVars, handVars, room, game, disconnections, nextHandTimer, hung, localGame>>

\* 30 s have passed since the oldest disconnection under way: its timer, when
\* handleDisconnection set one, runs its callback
RoomManagerDisconnectTimeout ==
    /\ engine = "Room" /\ ~hung
    /\ disconnections # <<>>
    /\ game' = RoomManager_disconnectTimeout(game, Head(disconnections).gamePlayer)
    /\ disconnections' = Tail(disconnections)
    /\ UNCHANGED <<engine, tracksLastAction, deckVars, handVars, roomManager, room, nextHandTimer, hung, localGame>>

----------------------------------------------------------------------------
(* Operations on the decks *)

\* the calls made on one deck between two resets
MaxDeckCalls == 2

\* the seeds given to shuffle, as the char codes of the strings "1", "seed"
\* and "1762163384000" (a Date.now().toString(), the seed by default)
Seeds == { <<49>>, <<115, 101, 101, 100>>,
           <<49, 55, 54, 50, 49, 54, 51, 51, 56, 52, 48, 48, 48>> }

DeckReset ==
    /\ engine = "Deck"
    /\ \E d \in DOMAIN decks :
          /\ decks' = [decks EXCEPT ![d] = Deck_reset(@)]
          /\ calls' = [calls EXCEPT ![d] = <<>>]
          /\ dealt' = [dealt EXCEPT ![d] = <<>>]
    /\ UNCHANGED <<engine, tracksLastAction, handVars, roomManager, room, disconnections,
                   game, nextHandTimer, hung, localGame>>

DeckShuffle ==
    /\ engine = "Deck"
    /\ \E d \in DOMAIN decks, randomSeed \in Seeds :
          /\ Len(calls[d]) < MaxDeckCalls
          /\ decks' = [decks EXCEPT ![d] = Deck_shuffle(@, randomSeed)]
          /\ calls' = [calls EXCEPT ![d] = Append(@, [method |-> "shuffle", randomSeed |-> randomSeed])]
    /\ UNCHANGED <<engine, tracksLastAction, dealt, handVars, roomManager, room, disconnections,
                   game, nextHandTimer, hung, localGame>>

DeckDealCard ==
    /\ engine = "Deck"
    /\ \E d \in DOMAIN decks :
          /\ Len(calls[d]) < MaxDeckCalls
          /\ LET r == Deck_dealCardFrom(decks[d])
             IN  /\ decks' = [decks EXCEPT ![d] = r.deck]
                 /\ dealt' = [dealt EXCEPT ![d] = IF r.fault = "none" THEN Append(@, r.card) ELSE @]
          /\ calls' = [calls EXCEPT ![d] = Append(@, [method |-> "dealCard", randomSeed |-> <<>>])]
    /\ UNCHANGED <<engine, tracksLastAction, handVars, roomManager, room, disconnections,
                   game, nextHandTimer, hung, localGame>>

----------------------------------------------------------------------------
(* Calls of the hand evaluator *)

\* the cards of the four suits with the ranks 2 .. maxRank and the ace
CardsUpTo(maxRank) == { c \in 1..52 : Card_getRankValue(c) <= maxRank \/ Card_getRankValue(c) = 14 }

\* the five cards given to getHandRank have the ranks 2 .. MaxLowRank or ace
MaxLowRank == 6

\* the seven cards given to findBestHand have the ranks 2 .. MaxBoardRank or ace
MaxBoardRank == 3

\* the cards of `hand` are given in the order of createDeck: the cards of
\* `universe` that come after card c
After(c, universe) == { x \in universe : x > c }

\* findBestHand: getHandRank is called on five cards
GetHandRank ==
    /\ engine = "HandRank"
    /\ handResult.rank = nullRank
    /\ handResult' = [cards |-> hand, rank |-> getHandRank(hand)]
    /\ UNCHANGED <<engine, tracksLastAction, deckVars, hand, bestHands, roomManager, room,
                   disconnections, game, nextHandTimer, hung, localGame>>

\* determineWinners: findBestHand(player.holeCards, this.communityCards)
FindBestHand ==
    /\ engine = "BestHand"
    /\ handResult.rank = nullRank
    /\ handResult' = findBestHand(SubSeq(hand, 1, 2), SubSeq(hand, 3, Len(hand)))
    /\ UNCHANGED <<engine, tracksLastAction, deckVars, hand, bestHands, roomManager, room,
                   disconnections, game, nextHandTimer, hung, localGame>>

----------------------------------------------------------------------------

\* numbers of names given to new LocalGame(playerNames), of users in a lobby
PlayerCounts == 2..gameSettings.maxPlayers

\* the objects that are not run stay as constructed
InitEngines ==
    /\ game = NewGame
    /\ nextHandTimer = FALSE
    /\ hung = FALSE
    /\ disconnections = <<>>
    /\ roomManager = NewRoomManager
    /\ NoDeckCalled /\ NoHandGiven
    /\ \/ engine = "Game" /\ localGame = NewLocalGame(2) /\ room = NewRoom(2)
       \/ engine = "LocalGame" /\ localGame \in { NewLocalGame(n) : n \in PlayerCounts } /\ room = NewRoom(2)
       \/ engine = "Room" /\ localGame = NewLocalGame(2) /\ room \in { NewRoom(n) : n \in PlayerCounts }

Next ==
    \/ GameAddPlayer
    \/ GameStartGame
    \/ GamePlayerAction
    \/ GameNextHandTimer
    \/ LocalStartGame
    \/ LocalPlayerAction
    \/ LocalNextHand
    \/ RoomStartGame
    \/ RoomPlayerAction
    \/ RoomManagerHandleDisconnection
    \/ RoomManagerJoinRoom
    \/ RoomManagerDisconnectTimeout

Init == InitEngines /\ tracksLastAction = FALSE

Spec == Init /\ [][Next]_vars

\* the same engines, for the properties that try every call in every state
SpecCallers == Init /\ [][Next]_vars

\* the same program with Player.lastAction kept
InitLastAction == InitEngines /\ tracksLastAction = TRUE

SpecLastAction == InitLastAction /\ [][Next]_vars

\* the lobby: a user creates the room (server.js, POST /api/rooms), then
\* users come and go; the sockets that close are followed in Spec
InitLobby ==
    /\ engine = "Room"
    /\ tracksLastAction = FALSE
    /\ game = NewGame
    /\ nextHandTimer = FALSE
    /\ hung = FALSE
    /\ disconnections = <<>>
    /\ localGame = NewLocalGame(2)
    /\ roomManager = NewRoomManager
    /\ room = RoomManager_createRoom(0)
    /\ NoDeckCalled /\ NoHandGiven

NextLobby ==
    \/ RoomManagerJoinRoom
    \/ RoomUpdatePlayerReady
    \/ RoomManagerLeaveRoom
    \/ RoomManagerCleanup
    \/ RoomStartGame
    \/ RoomPlayerAction

SpecLobby == InitLobby /\ [][NextLobby]_vars

\* the objects that the callers of Deck and of the hand evaluator leave alone
InitCalls ==
    /\ tracksLastAction = FALSE
    /\ game = NewGame
    /\ nextHandTimer = FALSE
    /\ hung = FALSE
    /\ disconnections = <<>>
    /\ localGame = NewLocalGame(2)
    /\ roomManager = NewRoomManager
    /\ room = NewRoom(2)

\* two decks, and callers of reset, shuffle and dealCard
InitDeck == engine = "Deck" /\ InitCalls /\ NewDecks /\ NoHandGiven

NextDeck ==
    \/ DeckReset
    \/ DeckShuffle
    \/ DeckDealCard

SpecDeck == InitDeck /\ [][NextDeck]_vars

\* any five cards, and a caller of getHandRank
InitHandRank ==
    /\ engine = "HandRank" /\ InitCalls /\ NoDeckCalled
    /\ LET universe == CardsUpTo(MaxLowRank)
       IN  \E a \in universe : \E b \in After(a, universe) : \E c \in After(b, universe) :
           \E d \in After(c, universe) : \E e \in After(d, universe) :
              hand = <<a, b, c, d, e>>
    /\ handResult = [cards |-> <<>>, rank |-> nullRank]
    /\ bestHands = <<>>

NextHandRank == GetHandRank

SpecHandRank == InitHandRank /\ [][NextHandRank]_vars

\* any two hole cards and five community cards, and a caller of findBestHand
InitBestHand ==
    /\ engine = "BestHand" /\ InitCalls /\ NoDeckCalled
    /\ LET universe == CardsUpTo(MaxBoardRank)
       IN  \E a \in universe : \E b \in After(a, universe) : \E c \in After(b, universe) :
           \E d \in After(c, universe) : \E e \in After(d, universe) :
           \E f \in After(e, universe) : \E g \in After(f, universe) :
              hand = <<a, b, c, d, e, f, g>>
    /\ handResult = [cards |-> <<>>, rank |-> nullRank]
    /\ bestHands = <<>>

NextBestHand == FindBestHand

SpecBestHand == InitBestHand /\ [][NextBestHand]_vars

\* the cards that can lie at the places dealt from: three suits of the ranks
\* 2 .. MaxBoardRank and the ace
ShowdownCards == { c \in CardsUpTo(MaxBoardRank) : Card_suit(c) # "spades" }

\* the places of the shuffled array that a table of two is dealt from: the
\* hole cards of the first and of the second player, the community cards
\* (48, 44 and 42 are burnt)
HolePlaces == << <<52, 50>>, <<51, 49>> >>
BoardPlaces == <<47, 46, 45, 43, 41>>

\* a table of two on the river of its first hand.  Server engine: the small
\* blind (the first player) raised all-in before the flop, which closed the
\* round, and called for nothing on the flop and the turn; it is to act
GameAtRiver ==
    [NewGame EXCEPT
        !.currentHand = 1, !.gamePhase = "river",
        !.players =
            << [Player(0, 0, 0, generateId(0)) EXCEPT
                   !.holeCards = HolePlaces[1], !.totalBetThisHand = 3],
               [Player(1, 1, 1, generateId(1)) EXCEPT
                   !.holeCards = HolePlaces[2], !.totalBetThisHand = 2] >>,
        !.playersInHand = <<generateId(0), generateId(1)>>,
        !.pot.mainPot = 5, !.communityCards = BoardPlaces, !.deck = 40,
        !.minimumRaise = gameSettings.bigBlind,
        !.smallBlindPosition = 0, !.bigBlindPosition = 1, !.activePlayerPosition = 0,
        !.handHistory = 5]

\* local engine: the small blind called, and both checked on the flop and the
\* turn; the small blind is to act
LocalGameAtRiver ==
    [NewLocalGame(2) EXCEPT
        !.currentHand = 1, !.gamePhase = "river",
        !.players =
            << [LocalPlayer(0) EXCEPT !.chips = 1, !.holeCards = HolePlaces[1],
                                      !.totalBetThisHand = 2],
               [LocalPlayer(1) EXCEPT !.chips = 1, !.holeCards = HolePlaces[2],
                                      !.totalBetThisHand = 2] >>,
        !.pot = 4, !.communityCards = BoardPlaces, !.deck = 40,
        !.handHistory = 6]

\* a shuffled deck with the cards hole[1], hole[2] and board at the places
\* they are dealt from; a card that is not dealt lies at the place createDeck
\* gave it, or at a place whose card was dealt if its own is dealt from
Deck_stacked(hole, board) ==
    LET places == HolePlaces[1] \o HolePlaces[2] \o BoardPlaces
        faces == hole[1] \o hole[2] \o board
        displaced == Range(places) \ Range(faces)
        vacant == Range(faces) \ Range(places)
        CardAt(place) ==
            IF place \in Range(places)
            THEN faces[CHOOSE i \in 1..Len(places) : places[i] = place]
            ELSE IF place \notin Range(faces) THEN place
            ELSE CHOOSE card \in displaced :
                    Cardinality({ x \in displaced : x < card })
                        = Cardinality({ v \in vacant : v < place })
    IN  [NewDeck EXCEPT !.cards = [place \in 1..52 |-> CardAt(place)]]

\* a table on the river, and the deck it was dealt from
InitShowdown ==
    /\ tracksLastAction = FALSE
    /\ nextHandTimer = FALSE
    /\ hung = FALSE
    /\ disconnections = <<>>
    /\ roomManager = NewRoomManager
    /\ room = NewRoom(2)
    /\ hand = <<>> /\ handResult = [cards |-> <<>>, rank |-> nullRank]
    /\ \/ engine = "Game" /\ game = GameAtRiver /\ localGame = NewLocalGame(2)
       \/ engine = "LocalGame" /\ game = NewGame /\ localGame = LocalGameAtRiver
    /\ \E a \in ShowdownCards : \E b \in After(a, ShowdownCards) :
       LET rest == ShowdownCards \ {a, b}
       IN  \E c \in rest : \E d \in After(c, rest) :
           LET left == rest \ {c, d}
           IN  \E e \in left : \E f \in After(e, left) : \E g \in After(f, left) :
               \E h \in After(g, left) : \E i \in After(h, left) :
                  /\ decks = << Deck_stacked(<< <<a, b>>, <<c, d>> >>, <<e, f, g, h, i>>) >>
                  /\ calls = << <<>> >>
                  /\ dealt = << <<>> >>
    \* findBestHand is a function of the cards: its results at the showdown
    \* are those for the cards that lie at the places dealt from
    /\ bestHands = [seat \in 1..2 |->
                       findBestHand(CardsAt(HolePlaces[seat]), CardsAt(BoardPlaces)).rank]

NextShowdown ==
    \/ GamePlayerAction
    \/ LocalPlayerAction

SpecShowdown == InitShowdown /\ [][NextShowdown]_vars

----------------------------------------------------------------------------
(* Vocabulary of the properties *)

RECURSIVE SumField(_, _)
SumField(players, field) ==
    IF players = <<>> THEN 0
    ELSE Head(players)[field] + SumField(Tail(players), field)

\* the engine that runs, seen through the names both engines share (the
\* server engine is `game`, run on its own or by its room)
Phase == IF engine # "LocalGame" THEN game.gamePhase ELSE localGame.gamePhase
CommunityCards == IF engine # "LocalGame" THEN game.communityCards ELSE localGame.communityCards
CurrentHand == IF engine # "LocalGame" THEN game.currentHand ELSE localGame.currentHand
HandHistory == IF engine # "LocalGame" THEN game.handHistory ELSE localGame.handHistory
Players == IF engine # "LocalGame" THEN game.players ELSE localGame.players
TableBet == IF engine # "LocalGame" THEN game.currentBetAmount ELSE localGame.currentBetAmount
Pot == IF engine # "LocalGame" THEN game.pot.mainPot ELSE localGame.pot

\* seat k (1..Len(Players)) has not folded and takes part in the hand
InHand(k) ==
    IF engine # "LocalGame" THEN Includes(game.playersInHand, game.players[k].playerId)
    ELSE localGame.players[k].status \in {"active", "all-in"}

\* seat k can still act
CanAct(k) ==
    IF engine # "LocalGame" THEN Game_canPlayerAct(game, game.players[k])
    ELSE localGame.players[k].status = "active"

Contestants == { k \in 1..Len(Players) : InHand(k) }

\* the seat whose turn it is (0: no seat)
ActiveSeat ==
    IF engine # "LocalGame"
    THEN LET activePlayers == Game_activePlayers(game)
         IN  IF game.activePlayerPosition \in 0..(Len(activePlayers) - 1)
             THEN Game_indexOf(game, activePlayers[game.activePlayerPosition + 1].playerId)
             ELSE 0
    ELSE IF localGame.activePlayerIndex \in LocalGame_indexes(localGame)
         THEN localGame.activePlayerIndex + 1
         ELSE 0

\* playerAction accepted a call of the seat whose turn it was (the step is a
\* step within one hand that adds an entry to the hand history)
AcceptedAction ==
    /\ ~hung /\ ~hung'
    /\ CurrentHand' = CurrentHand
    /\ HandHistory' = HandHistory + 1
    /\ ActiveSeat # 0

TotalChips == SumField(Players, IF engine # "LocalGame" THEN "chipStack" ELSE "chips")
TotalBets == SumField(Players, "totalBetThisHand")

\* chips the step adds to the stack of seat k, the chips that seat k bets in
\* the same step set aside
Credited(k) ==
    LET before == Players[k]
        after == Players'[k]
    IN  IF engine # "LocalGame"
        THEN after.chipStack - before.chipStack
                 + (after.totalBetThisHand - before.totalBetThisHand)
        ELSE after.chips - before.chips
                 + (after.totalBetThisHand - before.totalBetThisHand)

\* the accepted action closes the last betting round of the hand and the
\* hands of two or more contestants are compared
ShowdownStep ==
    /\ AcceptedAction
    /\ Phase \in BettingPhases /\ Phase' \in {"showdown", "hand-complete"}
    /\ Cardinality(Contestants') >= 2

----------------------------------------------------------------------------
(* Rejected calls *)

GameRejections ==
    { "Player not found", "Not your turn", "Player cannot act",
      "Cannot check, must call or fold", "Cannot bet, must call or raise",
      "Minimum raise", "Invalid action type" }

LocalGameRejections ==
    { "Invalid player", "Not your turn", "Player cannot act",
      "Cannot check - must call or fold", "Minimum raise", "Invalid action" }

\* the messages with which playerAction rejects some call in this state
RejectionsHere ==
    IF engine # "LocalGame"
    THEN { r.fault : r \in UNION { Game_playerAction(game, call[1], call[2], call[3]) :
               call \in { c \in Ids \X ActionTypes \X Amounts : c[3] \in AmountsOf(c[2]) } } }
         \cap GameRejections
    ELSE { r.fault : r \in UNION { LocalGame_playerAction(localGame, call[1], call[2], call[3]) :
               call \in { c \in PlayerIds \X ActionTypes \X Amounts : c[3] \in AmountsOf(c[2]) } } }
         \cap LocalGameRejections

\* C1: in both engines, a call that playerAction rejects by throwing (unknown
\* player, not the caller's turn, player cannot act, check or bet while a bet
\* is outstanding, raise below the minimum, invalid action type) leaves the
\* whole engine state as it was before the call.
RejectedCallLeavesStateUnchanged ==
    /\ engine # "LocalGame" =>
         \A playerId \in Ids, actionType \in ActionTypes :
           \A amount \in AmountsOf(actionType) :
             \A r \in Game_playerAction(game, playerId, actionType, amount) :
                r.fault \in GameRejections => r.g = game /\ ~r.timer
    /\ engine = "LocalGame" =>
         \A playerIndex \in PlayerIds, actionType \in ActionTypes :
           \A amount \in AmountsOf(actionType) :
             \A r \in LocalGame_playerAction(localGame, playerIndex, actionType, amount) :
                r.fault \in LocalGameRejections => r.g = localGame

\* a state of the server engine after an accepted action in which calls are
\* rejected for six different reasons
RejectedCallWitness ==
    /\ engine = "Game" /\ game.gamePhase = "pre-flop" /\ game.handHistory > 2
    /\ { "Player not found", "Not your turn", "Cannot check, must call or fold",
         "Cannot bet, must call or raise", "Minimum raise", "Invalid action type" }
           \subseteq RejectionsHere

----------------------------------------------------------------------------
(* The pot *)

\* C3: in both engines, in every state of a hand from the posting of the
\* blinds to the distribution of the pot, the pot equals the sum of
\* totalBetThisHand over all players.
PotEqualsTotalBets ==
    Phase \in BettingPhases => Pot = SumField(Players, "totalBetThisHand")

\* a later betting round of the server engine, chips bet on top of the blinds
PotEqualsTotalBetsWitness ==
    /\ engine = "Game" /\ game.gamePhase \in {"flop", "turn", "river"}
    /\ game.pot.mainPot > gameSettings.smallBlind + gameSettings.bigBlind
    /\ \E k \in 1..Len(game.players) :
          game.players[k].totalBetThisHand > gameSettings.bigBlind

----------------------------------------------------------------------------
(* The phases of a hand *)

CardsOfPhase(phase) ==
    CASE phase = "pre-flop" -> 0
      [] phase = "flop" -> 3
      [] phase = "turn" -> 4
      [] phase = "river" -> 5

CommunityCardsMatchPhase ==
    (Phase \in BettingPhases /\ CurrentHand > 0) =>
        Len(CommunityCards) = CardsOfPhase(Phase)

\* the phase that follows a completed betting round
PhaseAfter(phase) ==
    CASE phase = "pre-flop" -> {"flop"}
      [] phase = "flop" -> {"turn"}
      [] phase = "turn" -> {"river"}
      [] phase = "river" -> {"showdown", "hand-complete"}
      [] phase = "showdown" -> {"hand-complete"}
      [] OTHER -> {}

\* a change of phase within a hand is one step forward, or the jump to the
\* end of the hand that leaves a single contestant
PhaseMovesForward ==
    (CurrentHand' = CurrentHand /\ CurrentHand > 0 /\ Phase' # Phase /\ Phase' # "completed") =>
        \/ Phase' \in PhaseAfter(Phase)
        \/ /\ Phase \in BettingPhases /\ Phase' \in {"showdown", "hand-complete"}
           /\ Cardinality(Contestants') <= 1

----------------------------------------------------------------------------
(* The award of the pot *)

\* C2: in both engines, at a showdown of two or more non-folded players the
\* chips credited to the winners' stacks add up to the sum of totalBetThisHand
\* over all players of the hand: no chip is lost or created.
ShowdownCreditsWholePot ==
    [][ShowdownStep => TotalChips' - TotalChips + (TotalBets' - TotalBets) = TotalBets']_vars

\* the sum over all players p of min(totalBetThisHand(p), cap)
RECURSIVE CappedBets(_, _)
CappedBets(players, cap) ==
    IF players = <<>> THEN 0
    ELSE Min(Head(players).totalBetThisHand, cap) + CappedBets(Tail(players), cap)

\* C4: at showdown in both engines no winner w is credited more than the sum
\* over all players p of min(totalBetThisHand(p), totalBetThisHand(w)): a
\* player all-in for less wins only the tiers that player contributed to.
WinnerCreditedWithinOwnTiers ==
    [][ShowdownStep =>
          \A w \in 1..Len(Players) :
             Credited(w) <= CappedBets(Players', Players'[w].totalBetThisHand)]_vars

\* the accepted action is a fold that leaves exactly one contestant
FoldLeavesOne ==
    /\ AcceptedAction
    /\ Cardinality(Contestants) = 2
    /\ Contestants' = Contestants \ {ActiveSeat}
    /\ Cardinality(Contestants') = 1

\* seat k is the only winner, of the whole pot, unopposed
AwardedUnopposed(k) ==
    /\ IF engine # "LocalGame"
       THEN game'.winners = << [playerId |-> game.players[k].playerId,
                                amount |-> game'.pot.mainPot,
                                handType |-> "unopposed"] >>
       ELSE localGame'.winners = << [playerIndex |-> k - 1,
                                     amount |-> localGame'.pot,
                                     handType |-> "unopposed"] >>
    /\ Credited(k) = Pot'

\* C6: in both engines the call whose accepted fold leaves exactly one
\* non-folded player ends the hand: the phase goes to showdown/hand-complete,
\* no community card is dealt and the remaining player is awarded the whole
\* pot as 'unopposed'.
FoldToOneEndsHand ==
    [][FoldLeavesOne =>
          /\ Phase' \in {"showdown", "hand-complete"}
          /\ CommunityCards' = CommunityCards
          /\ \A k \in Contestants' : AwardedUnopposed(k)]_vars

----------------------------------------------------------------------------
(* Betting rounds *)

Seats == 1..Len(Players)

ChipsOf(k) == IF engine # "LocalGame" THEN game.players[k].chipStack ELSE localGame.players[k].chips

\* seat k has checked in the betting round that is open (LocalGame keeps the
\* seats that acted since the last bet: with no bet, they checked)
HasChecked(k) ==
    IF engine # "LocalGame"
    THEN game.players[k].lastAction = GameAction("check", game.gamePhase)
    ELSE (k - 1) \in localGame.actedThisRound

\* the accepted action closes a betting round that two or more contestants leave
RoundCloses ==
    /\ AcceptedAction
    /\ Phase \in BettingPhases /\ Phase' # Phase
    /\ Cardinality(Contestants') >= 2

\* no bet is outstanding, two or more seats are able to bet, and every seat
\* that can act has checked
EveryActiveSeatHasChecked ==
    /\ ~hung
    /\ Phase \in BettingPhases /\ TableBet = 0
    /\ Cardinality({ k \in Seats : CanAct(k) /\ ChipsOf(k) > 0 }) >= 2
    /\ \A k \in Seats : CanAct(k) => HasChecked(k)

\* the seats that can act after the step and have chips to bet
AbleSeatsAfter == { k \in Seats : CanAct(k)' /\ ChipsOf(k) > 0 }

\* a round without a bet that closes on a check or a fold and leaves two or
\* more seats able to bet: the others of them have checked, and the cards of
\* the next phase lie on the board
NoBetRoundClosesWhenAllChecked ==
    (RoundCloses /\ TableBet = 0 /\ Pot' = Pot /\ Cardinality(AbleSeatsAfter) >= 2) =>
        /\ \A k \in AbleSeatsAfter \ {ActiveSeat} : HasChecked(k)
        /\ Phase' \in BettingPhases =>
              Len(CommunityCards') = CardsOfPhase(Phase')
        /\ Phase' \in PhaseAfter(Phase)

\* C7: in both engines a betting round with no outstanding bet stays open
\* until every active seat has checked, and once every active seat has checked
\* the round closes and the phase advances exactly once, with exactly the
\* community cards of the next phase dealt.
ChecksCloseTheRound ==
    [](~EveryActiveSeatHasChecked) /\ [][NoBetRoundClosesWhenAllChecked]_vars

\* chips the acting seat puts in with the accepted action
ActorPaid ==
    Players'[ActiveSeat].totalBetThisHand - Players[ActiveSeat].totalBetThisHand

\* the least the table bet can be when the accepted action is done: the bet
\* of the actor who put chips in, the table bet as it was otherwise
TableBetAfterAction ==
    IF ActorPaid > 0 THEN Players[ActiveSeat].currentBet + ActorPaid ELSE TableBet

\* C8: in both engines a betting round never closes while some other player who
\* can still act has a currentBet below the table bet: after a bet or raise
\* every other player still able to act acts again before the phase advances.
RoundStaysOpenForUnmatchedBets ==
    [][RoundCloses =>
          \A k \in Seats \ {ActiveSeat} :
             (CanAct(k)' /\ ChipsOf(k) > 0) =>
                 Players[k].currentBet >= TableBetAfterAction]_vars


\* the seat d places clockwise from seat k
Clockwise(k, d) == ((k - 1 + d) % Len(Players)) + 1

\* seat k is, after the step, the nearest seat that can act at `from` places
\* or more clockwise from seat a
NearestFrom(a, from, k) ==
    \E d \in from..Len(Players) :
        /\ k = Clockwise(a, d)
        /\ CanAct(k)'
        /\ \A e \in from..(d - 1) : ~CanAct(Clockwise(a, e))'

\* the accepted action neither ends the hand nor completes the betting round
TurnPasses ==
    /\ AcceptedAction
    /\ Phase \in BettingPhases /\ Phase' = Phase

\* C9: in both engines, after an accepted action that neither ends the hand
\* nor completes the betting round, the turn passes to the nearest seat
\* clockwise from the actor that can still act, also when the actor folded.
TurnPassesClockwise ==
    [][TurnPasses =>
          \E a, k \in Seats :
             a = ActiveSeat /\ k = ActiveSeat' /\ NearestFrom(a, 1, k)]_vars

\* the seats that were dealt into the hand
Participants == { k \in Seats : Players[k].status # "sitting-out" }

\* the d-th participant clockwise from seat k, k included when it takes part
RECURSIVE NextParticipant(_, _)
NextParticipant(k, d) ==
    IF k \in Participants /\ d = 0 THEN k
    ELSE NextParticipant(Clockwise(k, 1), IF k \in Participants THEN d - 1 ELSE d)

\* the seats that posted the blinds of the hand (three or more participants)
SmallBlindSeat ==
    IF engine # "LocalGame"
    THEN LET takesPart(p) == p.status # "sitting-out"
         IN  Game_indexOf(game, Filter(game.players, takesPart)[game.smallBlindPosition + 1].playerId)
    ELSE NextParticipant(Clockwise(localGame.dealerIndex + 1, 1), 0)

BigBlindSeat == NextParticipant(Clockwise(SmallBlindSeat, 1), 0)

\* the step opens a betting round of a hand of three or more participants
RoundOpens ==
    /\ ~hung'
    /\ Phase' \in BettingPhases
    /\ Phase' # Phase \/ CurrentHand' # CurrentHand
    /\ Cardinality(Participants') >= 3
    /\ \E k \in Seats' : CanAct(k)'

\* C10: in both engines, in hands of three or more participants, the first to
\* act pre-flop is the first seat after the big blind that can act, and on the
\* flop, turn and river it is the seat that posted the small blind if it can
\* act, otherwise the nearest seat clockwise from it that can act.
FirstToAct ==
    [][RoundOpens =>
          \E sb, bb, k \in Seats :
             /\ sb = SmallBlindSeat' /\ bb = BigBlindSeat' /\ k = ActiveSeat'
             /\ IF Phase' = "pre-flop" THEN NearestFrom(bb, 1, k)
                                       ELSE NearestFrom(sb, 0, k)]_vars

----------------------------------------------------------------------------
(* Heads-up *)

\* the seat of the dealer button
DealerSeat ==
    IF engine # "LocalGame"
    THEN LET takesPart(p) == p.status # "sitting-out"
         IN  Game_indexOf(game, Filter(game.players, takesPart)[game.dealerPosition + 1].playerId)
    ELSE localGame.dealerIndex + 1

\* the step opens a betting round of a hand of exactly two participants
HeadsUpRoundOpens ==
    /\ ~hung'
    /\ Phase' \in BettingPhases
    /\ Phase' # Phase \/ CurrentHand' # CurrentHand
    /\ Cardinality(Participants') = 2

\* after the step, what seat k has put into the hand is the blind `blind`, or
\* the whole stack of seat k when the stack was smaller
PostedBlind(k, blind) ==
    Players'[k].totalBetThisHand = Min(blind, Players'[k].totalBetThisHand + ChipsOf(k)')

\* C11: in both engines, in a hand of exactly two players the dealer posts the
\* small blind and acts first pre-flop, and the other player, the big blind,
\* acts first on the flop, the turn and the river.
HeadsUpOrder ==
    [][HeadsUpRoundOpens =>
          \E d, o, k \in Seats :
             /\ d = DealerSeat' /\ o \in Participants' \ {d} /\ k = ActiveSeat'
             /\ Phase' = "pre-flop" =>
                   /\ PostedBlind(d, gameSettings.smallBlind)
                   /\ PostedBlind(o, gameSettings.bigBlind)
                   /\ CanAct(d)' => k = d
             /\ Phase' # "pre-flop" => (CanAct(o)' => k = o)]_vars

----------------------------------------------------------------------------
(* Who may act *)

\* the calls a caller can make: <<id or index, actionType, amount>>
Calls(ids) == { c \in ids \X ActionTypes \X Amounts : c[3] \in AmountsOf(c[2]) }

\* the outcomes of the call c on the server engine g in which playerAction did
\* not reject the call
GameAccepts(g, c) ==
    { r \in Game_playerAction(g, c[1], c[2], c[3]) : r.fault \notin GameRejections }

LocalGameAccepts(l, c) ==
    { r \in LocalGame_playerAction(l, c[1], c[2], c[3]) : r.fault \notin LocalGameRejections }

\* the server engine with seat k disconnected, or in a status other than active
GameWithSeatUnable(k) ==
    { [game EXCEPT !.players[k].isConnected = FALSE] }
      \cup { [game EXCEPT !.players[k].status = st] : st \in {"folded", "all-in", "sitting-out"} }

LocalGameWithSeatUnable(k) ==
    { [localGame EXCEPT !.players[k].status = st] : st \in {"folded", "all-in", "sitting-out"} }

\* C12: in both engines an action is accepted only from the player at the
\* active position and only if that player's status is 'active' (and, in the
\* server engine, the player is connected and in playersInHand); a folded,
\* all-in, sitting-out or disconnected player never has an action accepted, and
\* a player other than the current actor is rejected with 'Not your turn'.
OnlyTheActorActs ==
    /\ engine # "LocalGame" =>
         LET actor == ActiveSeat
             able == /\ actor # 0
                     /\ game.players[actor].status = "active"
                     /\ game.players[actor].isConnected
                     /\ Includes(game.playersInHand, game.players[actor].playerId)
         IN  /\ \A c \in Calls(Ids) :
                  IF actor # 0 /\ game.players[actor].playerId = c[1]
                  THEN able \/ GameAccepts(game, c) = {}
                  ELSE IF Game_hasPlayer(game, c[1])
                       THEN \A r \in Game_playerAction(game, c[1], c[2], c[3]) :
                               r.fault = "Not your turn"
                       ELSE GameAccepts(game, c) = {}
             /\ actor # 0 =>
                  \A g \in GameWithSeatUnable(actor) :
                     \A c \in Calls({game.players[actor].playerId}) : GameAccepts(g, c) = {}
    /\ engine = "LocalGame" =>
         LET actor == ActiveSeat
             able == actor # 0 /\ localGame.players[actor].status = "active"
         IN  /\ \A c \in Calls(PlayerIds) :
                  IF actor # 0 /\ c[1] = actor - 1
                  THEN able \/ LocalGameAccepts(localGame, c) = {}
                  ELSE IF c[1] \in LocalGame_indexes(localGame)
                       THEN \A r \in LocalGame_playerAction(localGame, c[1], c[2], c[3]) :
                               r.fault = "Not your turn"
                       ELSE LocalGameAccepts(localGame, c) = {}
             /\ actor # 0 =>
                  \A l \in LocalGameWithSeatUnable(actor) :
                     \A c \in Calls({actor - 1}) : LocalGameAccepts(l, c) = {}

\* a hand in which one seat has folded, one is all-in and the third is asked
\* to act, and a call of that seat is accepted
OnlyTheActorActsWitness ==
    /\ engine = "LocalGame" /\ Phase \in BettingPhases
    /\ \E i, j \in 1..Len(localGame.players) :
          /\ localGame.players[i].status = "folded"
          /\ localGame.players[j].status = "all-in"
    /\ \E c \in Calls(PlayerIds) : LocalGameAccepts(localGame, c) # {}

----------------------------------------------------------------------------
(* Between the hands *)

\* the phases in which no hand is running
GameIdlePhases == {"waiting", "showdown", "hand-complete", "completed"}
LocalGameIdlePhases == {"waiting", "showdown", "hand-complete"}

\* C13: no player action is accepted while no hand is running: every call of
\* playerAction is rejected (and so, by C1, changes nothing) while the phase
\* of the server engine is 'waiting', 'showdown', 'hand-complete' (the pause
\* before the next hand) or 'completed', and while the phase of LocalGame is
\* 'waiting', 'showdown' or 'hand-complete'.
NoActionBetweenHands ==
    /\ (engine # "LocalGame" /\ game.gamePhase \in GameIdlePhases) =>
          \A c \in Calls(Ids) : GameAccepts(game, c) = {}
    /\ (engine = "LocalGame" /\ localGame.gamePhase \in LocalGameIdlePhases) =>
          \A c \in Calls(PlayerIds) : LocalGameAccepts(localGame, c) = {}

----------------------------------------------------------------------------
(* The call *)

\* the chips a call of seat k commits: min(table bet - own bet, stack)
CallAmount(k) == Min(TableBet - Players[k].currentBet, ChipsOf(k))

\* what the accepted call of the seat whose turn it is leaves of the hand:
\* the caller's record, the pot and the phase of every outcome
CallOutcomes ==
    IF engine # "LocalGame"
    THEN { [caller |-> r.g.players[ActiveSeat], chips |-> r.g.players[ActiveSeat].chipStack,
            pot |-> r.g.pot.mainPot, gamePhase |-> r.g.gamePhase] :
              r \in GameAccepts(game, <<game.players[ActiveSeat].playerId, "call", 0>>) }
    ELSE { [caller |-> r.g.players[ActiveSeat], chips |-> r.g.players[ActiveSeat].chips,
            pot |-> r.g.pot, gamePhase |-> r.g.gamePhase] :
              r \in LocalGameAccepts(localGame, <<ActiveSeat - 1, "call", 0>>) }

\* the accepted call moves CallAmount chips from the caller's stack to the pot
CallCommits ==
    \A o \in CallOutcomes :
       /\ o.caller.totalBetThisHand = Players[ActiveSeat].totalBetThisHand + CallAmount(ActiveSeat)
       /\ o.gamePhase \in BettingPhases =>
             /\ o.chips = ChipsOf(ActiveSeat) - CallAmount(ActiveSeat)
             /\ o.pot = Pot + CallAmount(ActiveSeat)

\* the accepted call that takes the caller's last chips makes the caller all-in
CallGoesAllIn ==
    (CallAmount(ActiveSeat) > 0 /\ CallAmount(ActiveSeat) = ChipsOf(ActiveSeat)) =>
        \A o \in CallOutcomes : o.caller.status = "all-in"

CallableState == ~hung /\ Phase \in BettingPhases /\ ActiveSeat # 0

CallCommitsHere == CallableState => CallCommits

\* C14: in both engines an accepted call moves exactly min(currentBetAmount -
\* caller's currentBet, caller's stack) chips from the caller's stack to the
\* pot, and a call that takes the caller's last chips makes the caller's
\* status 'all-in'.
CallCommitsAndGoesAllIn == CallableState => (CallCommits /\ CallGoesAllIn)

----------------------------------------------------------------------------
(* The minimum raise and the shove *)

MinimumRaise == IF engine # "LocalGame" THEN game.minimumRaise ELSE localGame.minimumRaise

\* what the seat whose turn it is must add to match the table bet
CallPart == TableBet - Players[ActiveSeat].currentBet

\* a bet or raise of this amount takes everything the actor has left
CommitsStack(amount) == CallPart + amount >= ChipsOf(ActiveSeat)

\* the actor's record in every outcome of an accepted bet or raise of the
\* seat whose turn it is
BetOutcomes(actionType, amount) ==
    IF engine # "LocalGame"
    THEN { r.g.players[ActiveSeat] :
              r \in GameAccepts(game, <<game.players[ActiveSeat].playerId, actionType, amount>>) }
    ELSE { r.g.players[ActiveSeat] :
              r \in LocalGameAccepts(localGame, <<ActiveSeat - 1, actionType, amount>>) }

\* accepted only from the minimum raise up, unless the whole stack goes in,
\* and the whole stack is accepted whatever its size
MinimumRaiseRule ==
    \A actionType \in {"bet", "raise"}, amount \in Amounts :
       /\ BetOutcomes(actionType, amount) # {} =>
             (amount >= MinimumRaise \/ CommitsStack(amount))
       /\ (CommitsStack(amount) /\ ~(actionType = "bet" /\ TableBet > 0)) =>
             BetOutcomes(actionType, amount) # {}

ShoveGoesAllIn ==
    \A actionType \in {"bet", "raise"}, amount \in Amounts :
       CommitsStack(amount) =>
          \A actor \in BetOutcomes(actionType, amount) : actor.status = "all-in"

\* a betting round in which the seat whose turn it is is able to act
ActorCanAct ==
    /\ CallableState
    /\ Players[ActiveSeat].status = "active"
    /\ engine # "LocalGame" => game.players[ActiveSeat].isConnected

MinimumRaiseRuleHere == ActorCanAct => MinimumRaiseRule

\* C15: in both engines a bet or raise is accepted only if the amount beyond
\* matching the table bet is at least minimumRaise, unless it commits the
\* player's entire stack; committing the entire stack is accepted whatever
\* its size and makes the player's status 'all-in'; below the minimum and
\* short of the whole stack the bet or raise is rejected.
BetOrRaiseRule == ActorCanAct => (MinimumRaiseRule /\ ShoveGoesAllIn)

----------------------------------------------------------------------------
(* The fold *)

\* the seat is still contesting the pot
InContest(g, l, k) ==
    IF engine # "LocalGame"
    THEN \E i \in DOMAIN g.playersInHand : g.playersInHand[i] = g.players[k].playerId
    ELSE (k - 1) \in LocalGame_playersInHand(l)

\* the hand as every accepted fold of the seat whose turn it is leaves it
FoldOutcomes ==
    IF engine # "LocalGame"
    THEN { [g |-> r.g, l |-> localGame, folder |-> r.g.players[ActiveSeat]] :
              r \in GameAccepts(game, <<game.players[ActiveSeat].playerId, "fold", 0>>) }
    ELSE { [g |-> game, l |-> r.g, folder |-> r.g.players[ActiveSeat]] :
              r \in LocalGameAccepts(localGame, <<ActiveSeat - 1, "fold", 0>>) }

\* an accepted fold marks the seat folded, takes its cards and takes it out
\* of the contest
FoldClears ==
    ActorCanAct =>
        /\ FoldOutcomes # {}
        /\ \A o \in FoldOutcomes :
              /\ o.folder.status = "folded"
              /\ o.folder.holeCards = <<>>
              /\ ~InContest(o.g, o.l, ActiveSeat)

\* a folded seat holds no cards, and nothing hands them out
FoldedHoldsNoCards ==
    \A k \in Seats :
       Players[k].status = "folded" =>
          /\ Players[k].holeCards = <<>>
          /\ engine = "LocalGame" => LocalGame_peekHoleCards(localGame, k - 1) = <<>>

\* C16: an accepted fold sets the player's status to 'folded', empties the
\* player's hole cards and removes the player from the contest, and in every
\* reachable state of both engines a folded player holds no hole cards, so
\* that no operation (LocalGame.peekHoleCards) returns them.
FoldLeavesNoCards == FoldClears /\ FoldedHoldsNoCards

----------------------------------------------------------------------------
(* The chip stacks *)

\* C17: in every reachable state of both engines, whatever hands were played
\* and whatever actions were accepted or rejected, every player's chip stack
\* is at least 0.
ChipStackNeverNegative == \A k \in Seats : ChipsOf(k) >= 0

\* a seat has put its last chips into a hand that is still being played
ChipStackNeverNegativeWitness ==
    /\ Phase \in BettingPhases
    /\ \E k \in Seats : ChipsOf(k) = 0 /\ Players[k].totalBetThisHand > 0

----------------------------------------------------------------------------
(* Actions submitted through the room *)

\* C18: in a room whose game is in progress, a legal action that the seated
\* user whose turn it is submits through Room.playerAction is applied by the
\* Game to that user's seat: the identifier the Room forwards resolves to the
\* Player created for the user in Room.startGame, and the call is not
\* rejected with 'Player not found'.
RoomActionReachesSeat ==
    (engine = "Room" /\ room.status = "in-progress" /\ ActorCanAct) =>
        \A actionType \in ActionTypes : \A amount \in AmountsOf(actionType) :
           LET player == game.players[ActiveSeat]
           IN  GameAccepts(game, <<player.playerId, actionType, amount>>) # {} =>
                  /\ Room_playerAction(room, game, player.userId, actionType, amount)
                        = Game_playerAction(game, player.playerId, actionType, amount)
                  /\ \A r \in Room_playerAction(room, game, player.userId, actionType, amount) :
                        r.fault # "Player not found"

----------------------------------------------------------------------------
(* The snapshots *)

\* whoever may ask for a snapshot: the users, seated or not, and nobody (the
\* broadcast)
Requesters == UserIds \cup {nullUserId}

\* the snapshot shows the hole cards of seat i
ShowsHoleCards(snapshot, i) == snapshot.players[i].holeCards # <<>>

\* C19: a snapshot made for a requesting user (Room.getRoomState through
\* Game.getGameState) contains hole cards only for the requester's own seat,
\* never another player's and never a folded player's, and a snapshot made
\* for a spectator, a non-member or a broadcast contains none.
SnapshotShowsOwnCardsOnly ==
    engine = "Room" =>
        \A userId \in Requesters, includePrivateInfo \in BOOLEAN :
           LET snapshot == Room_getRoomState(room, game, userId, includePrivateInfo)
           IN  \A i \in DOMAIN snapshot.players :
                  ShowsHoleCards(snapshot, i) =>
                     /\ includePrivateInfo
                     /\ Room_isPlayer(room, userId)
                     /\ game.players[i].userId = userId
                     /\ game.players[i].status # "folded"

\* what remains of it: without the private flag, and for whoever has no seat,
\* no hole cards are shown
SnapshotHidesFromOthers ==
    engine = "Room" =>
        \A userId \in Requesters, includePrivateInfo \in BOOLEAN :
           (~includePrivateInfo \/ userId = nullUserId \/ ~Room_isPlayer(room, userId)) =>
              LET snapshot == Room_getRoomState(room, game, userId, includePrivateInfo)
              IN  \A i \in DOMAIN snapshot.players : ~ShowsHoleCards(snapshot, i)

----------------------------------------------------------------------------
(* The disconnection and its grace window *)

\* the user has a seat in the game, and it is seat k
SeatOfUser(g, userId, k) == k \in DOMAIN g.players /\ g.players[k].userId = userId

\* this step is handleDisconnection for a user of a room whose game exists
DisconnectionStep ==
    /\ room.game # "null"
    /\ Len(disconnections') = Len(disconnections) + 1

\* this step is the end of the window of the oldest disconnection under way
WindowEndStep ==
    /\ disconnections # <<>>
    /\ disconnections' = Tail(disconnections)

\* this step gives player i of the room a socket again
ReconnectionStep(i) ==
    /\ room.game # "null"
    /\ room.players[i].socketId = "null"
    /\ room'.players[i].socketId = "socket"

\* the disconnection marks the user's seat and starts the window for it
DisconnectionOpensWindow ==
    DisconnectionStep =>
        \E k \in DOMAIN game.players :
           /\ SeatOfUser(game, disconnections'[Len(disconnections')].userId, k)
           /\ ~game'.players[k].isConnected
           /\ disconnections'[Len(disconnections')].gamePlayer = k

\* the end of a window sits a seat out only when the window is the one of the
\* user's most recent disconnection and the seat is still disconnected
WindowEndDemotesTheAbsent ==
    WindowEndStep =>
        \A k \in DOMAIN game.players :
           (game.players[k].status # "sitting-out" /\ game'.players[k].status = "sitting-out") =>
              /\ Head(disconnections).gamePlayer = k
              /\ ~game.players[k].isConnected
              /\ \A j \in 2..Len(disconnections) :
                    disconnections[j].userId # Head(disconnections).userId

\* the reconnection brings the seat back, connected and playing
ReconnectionRestores ==
    \A i \in DOMAIN room.players :
       ReconnectionStep(i) =>
          \E k \in DOMAIN game.players :
             /\ SeatOfUser(game, room.players[i].userId, k)
             /\ game'.players[k].isConnected
             /\ game'.players[k].chipStack > 0 => game'.players[k].status # "sitting-out"

GraceWindowOfStaleTimer == [][WindowEndDemotesTheAbsent]_vars

GraceWindowRestores == [][ReconnectionRestores]_vars

----------------------------------------------------------------------------
(* The disconnected seat *)

\* the user whose socket closed keeps the place in the room, and the seat of
\* the user is marked at once and can no longer act
DisconnectionFreezesSeat ==
    DisconnectionStep =>
        LET userId == disconnections'[Len(disconnections')].userId
        IN  /\ Room_isPlayer(room', userId)
            /\ \E k \in DOMAIN game.players :
                  /\ SeatOfUser(game, userId, k)
                  /\ ~game'.players[k].isConnected
                  /\ ~Game_canPlayerAct(game', game'.players[k])

\* the user of the oldest disconnection under way has been away ever since
StillAway ==
    /\ \E i \in DOMAIN room.players :
          /\ room.players[i].userId = Head(disconnections).userId
          /\ room.players[i].socketId = "null"
    /\ \A j \in 2..Len(disconnections) :
          disconnections[j].userId # Head(disconnections).userId

\* at the end of the window the marked seat of a user who is still away sits
\* out
WindowEndSitsOut ==
    (WindowEndStep /\ room.game # "null" /\ StillAway) =>
        \A k \in DOMAIN game.players :
           (SeatOfUser(game, Head(disconnections).userId, k) /\ ~game.players[k].isConnected) =>
              game'.players[k].status = "sitting-out"

\* C21: when the socket of a player seated in a running game disconnects, the
\* player is not removed from the room, the player's game seat is marked
\* disconnected at once (isConnected = false, it can no longer act), and if
\* the player has not reconnected when the grace window expires the seat's
\* status becomes 'sitting-out'.
DisconnectedSeatFrozenThenSatOut ==
    [][DisconnectionFreezesSeat /\ WindowEndSitsOut]_vars

\* what remains of it: the user keeps the place in the room
DisconnectedStaysInRoom ==
    [][DisconnectionStep =>
          Room_isPlayer(room', disconnections'[Len(disconnections')].userId)]_vars

----------------------------------------------------------------------------
(* The seat that sits out *)

\* the game with seat k as the disconnect timer and Room.removePlayer leave
\* the seat of a user who is gone
GameWithSeatSatOut(k) ==
    [game EXCEPT !.players[k].isConnected = FALSE, !.players[k].status = "sitting-out"]

\* the hands that startNewHand deals when the pending timer of
\* processShowdown fires while seat k sits out, its occupant still away
HandsStartedWithout(k) ==
    IF nextHandTimer /\ ~hung /\ Game_shouldContinueGame(GameWithSeatSatOut(k))
    THEN { h \in {Game_startNewHand(GameWithSeatSatOut(k)).g} : h.gamePhase = "pre-flop" }
    ELSE {}

----------------------------------------------------------------------------
(* The start of the game from the lobby *)

\* at least two users are seated, all of them hold an open socket and all of
\* them have declared themselves ready
SeatedPresentAndReady ==
    /\ room.currentPlayers >= 2
    /\ \A i \in 1..Len(room.players) :
          room.players[i].socketId = "socket" /\ room.players[i].isReady

\* C23: Room.startGame starts a game only if at least two players are seated,
\* every seated player is connected and every seated player is ready;
\* otherwise it throws and the room stays 'waiting' with no game created
StartGameOnlyWhenPresentAndReady ==
    [][RoomStartGame =>
          IF SeatedPresentAndReady
          THEN room'.status = "in-progress" /\ room'.game # "null"
          ELSE /\ Room_startGame(room, game).fault # "none"
               /\ room'.status = "waiting" /\ room'.game = "null"]_vars


----------------------------------------------------------------------------
(* The seats of the room *)

\* the room is registered with the RoomManager
Registered == "room" \in roomManager.rooms

\* the users seated in room r
Seated(r) == { r.players[i].userId : i \in 1..Len(r.players) }

\* Room.addPlayer would admit the user
Admissible(userId) ==
    /\ room.currentPlayers < gameSettings.maxPlayers
    /\ userId \notin Seated(room)
    /\ room.status # "in-progress"

\* addPlayer admits the admissible and throws at the others, changing nothing
AddPlayerAdmitsTheAdmissible ==
    \A userId \in Visitors :
        LET r == Room_addPlayer(room, userId, "socket")
        IN  IF Admissible(userId)
            THEN r.fault = "none" /\ Seated(r.room) = Seated(room) \cup {userId}
            ELSE r.fault # "none" /\ r.room = room

\* currentPlayers counts the entries of players, none of them twice, and
\* stays within maxPlayers
SeatsCounted ==
    /\ room.currentPlayers = Len(room.players)
    /\ Cardinality(Seated(room)) = Len(room.players)
    /\ room.currentPlayers <= gameSettings.maxPlayers

\* a user who takes a seat in this step was admissible, and no game had been
\* created
SeatTakenOnlyWhenAdmissible ==
    \A userId \in Visitors :
        (userId \notin Seated(room) /\ userId \in Seated(room')) =>
            Admissible(userId) /\ room.game = "null"

\* C24: Room.addPlayer admits a user only while the room holds fewer than
\* maxPlayers players, the user is not already seated and no game is in
\* progress, and otherwise throws and changes nothing; after any joins,
\* leaves and game starts currentPlayers is the number of entries of players
\* and at most maxPlayers, and nobody is seated once the status is 'in-progress'
SeatingRule ==
    /\ [](Registered => (SeatsCounted /\ AddPlayerAdmitsTheAdmissible))
    /\ [][SeatTakenOnlyWhenAdmissible]_vars

\* the room is full and its game runs with a user who joined after the host
\* created the room: the next join is refused on both counts
SeatingRuleWitness ==
    /\ Registered
    /\ room.currentPlayers = gameSettings.maxPlayers
    /\ room.status = "in-progress"
    /\ gameSettings.maxPlayers \in Seated(room)
    /\ 0 \notin Seated(room)


----------------------------------------------------------------------------
(* The host of the room *)

\* the places in players of the players flagged isHost
HostFlagged == { i \in 1..Len(room.players) : room.players[i].isHost }

\* exactly one seated player is flagged isHost and hostUserId is their id
ExactlyOneHost ==
    /\ Cardinality(HostFlagged) = 1
    /\ \A i \in HostFlagged : room.players[i].userId = room.hostUserId

\* the seated players other than the host, in seating order
NotTheHost(playerInfo) == playerInfo.userId # room.hostUserId
OtherPlayers == SelectSeq(room.players, NotTheHost)

\* in this step the host leaves the room and other players remain seated
HostLeavesOthers ==
    /\ Registered
    /\ room.hostUserId \in Seated(room)
    /\ room.hostUserId \notin Seated(room')
    /\ OtherPlayers # <<>>

\* C25: when the host leaves while other players remain seated the first of
\* them in seating order becomes host; after any joins and leaves through the
\* RoomManager a registered room that is not empty has exactly one seated
\* player flagged isHost, and hostUserId is that player's id
HostRule ==
    /\ []((Registered /\ room.currentPlayers > 0) => ExactlyOneHost)
    /\ [][HostLeavesOthers => room'.hostUserId = Head(OtherPlayers).userId]_vars

\* the user who created the room has left it and another user is the host of
\* the two or more who remain
HostRuleWitness ==
    /\ Registered
    /\ 0 \notin Seated(room)
    /\ room.hostUserId # 0
    /\ room.currentPlayers >= 2


----------------------------------------------------------------------------
(* The removal of the room *)

\* the Game of the room is in a betting phase and seats of the hand have not
\* been folded out
HandActive ==
    /\ room.game # "null"
    /\ game.gamePhase \in BettingPhases
    /\ game.playersInHand # <<>>

\* C26: a room is removed from the RoomManager (leaveRoom or cleanup) only
\* when no hand is active in it: a room whose Game is in a betting phase is
\* never deleted unless all remaining seats of the hand were folded out first
RoomDeletedOnlyBetweenHands ==
    [][(Registered /\ ~Registered') => ~HandActive /\ ~HandActive']_vars


----------------------------------------------------------------------------
(* The cards of the deck *)

\* the card as the players see it
Face(c) == <<Card_suit(c), Card_getRankValue(c)>>

\* the 52 cards: four suits of thirteen ranks
Canonical == { <<suit, value>> : suit \in Range(suits), value \in 2..14 }

\* the cards left in deck d are pairwise distinct, none of them was dealt
\* since the last reset, and with the dealt ones they are the 52 cards
DeckComplete(d) ==
    /\ Cardinality({ Face(c) : c \in Range(decks[d].cards) }) = Len(decks[d].cards)
    /\ Cardinality({ Face(c) : c \in Range(dealt[d]) }) = Len(dealt[d])
    /\ { Face(c) : c \in Range(decks[d].cards) } \cap { Face(c) : c \in Range(dealt[d]) } = {}
    /\ { Face(c) : c \in Range(decks[d].cards) \cup Range(dealt[d]) } = Canonical

\* this step is a shuffle of deck d
ShuffleStep(d) ==
    /\ Len(calls'[d]) = Len(calls[d]) + 1
    /\ calls'[d][Len(calls'[d])].method = "shuffle"

\* C27: after any sequence of reset, shuffle(seed) and dealCard the cards
\* left in the deck are pairwise distinct and, with the cards dealt since the
\* last reset, are exactly the 52 cards; shuffle only permutes the cards left
DeckKeepsTheCards ==
    /\ [](\A d \in DOMAIN decks : DeckComplete(d))
    /\ [][\A d \in DOMAIN decks :
             ShuffleStep(d) => /\ Range(decks'[d].cards) = Range(decks[d].cards)
                               /\ Len(decks'[d].cards) = Len(decks[d].cards)
                               /\ dealt'[d] = dealt[d]]_vars

\* a deck that dealt a card and was then shuffled into another order
DeckKeepsTheCardsWitness ==
    \E d \in DOMAIN decks :
        /\ Len(calls[d]) = 2 /\ calls[d][1].method = "dealCard" /\ calls[d][2].method = "shuffle"
        /\ dealt[d] = <<52>>
        /\ decks[d].cards # SubSeq(Deck_createDeck, 1, 51)

----------------------------------------------------------------------------
(* The rank of five cards *)

\* the ranks of the cards of `hand` and how many cards have rank v
HandValues == { Card_getRankValue(c) : c \in Range(hand) }
CountOf(v) == Cardinality({ c \in Range(hand) : Card_getRankValue(c) = v })

OneSuit == Cardinality({ Card_suit(c) : c \in Range(hand) }) = 1

\* A-2-3-4-5
Wheel == HandValues = {14, 2, 3, 4, 5}

\* five ranks in a row, the ace high or low
InARow == Wheel \/ \E low \in 2..10 : HandValues = low..(low + 4)

\* the category of the five cards by the rules of poker
Category ==
    IF InARow /\ OneSuit THEN "straight-flush"
    ELSE IF \E v \in HandValues : CountOf(v) = 4 THEN "four-of-a-kind"
    ELSE IF \E v, w \in HandValues : CountOf(v) = 3 /\ CountOf(w) = 2 THEN "full-house"
    ELSE IF OneSuit THEN "flush"
    ELSE IF InARow THEN "straight"
    ELSE IF \E v \in HandValues : CountOf(v) = 3 THEN "three-of-a-kind"
    ELSE IF \E v, w \in HandValues : v # w /\ CountOf(v) = 2 /\ CountOf(w) = 2 THEN "two-pair"
    ELSE IF \E v \in HandValues : CountOf(v) = 2 THEN "pair"
    ELSE "high-card"

\* the categories from the weakest to the strongest
Strengths ==
    <<"high-card", "pair", "two-pair", "three-of-a-kind", "straight", "flush",
      "full-house", "four-of-a-kind", "straight-flush">>

\* C30: getHandRank puts any five distinct cards into their category, the
\* strengths of the categories are ordered straight-flush > four-of-a-kind >
\* full-house > flush > straight > three-of-a-kind > two-pair > pair >
\* high-card, and A-2-3-4-5 is a straight (a straight-flush when suited)
\* with high 5
HandRankIsTheCategory ==
    (engine = "HandRank" /\ handResult.rank # nullRank) =>
        /\ handResult.rank.type = Category
        /\ Strengths[handResult.rank.value + 1] = Category
        /\ Wheel => /\ handResult.rank.type \in {"straight", "straight-flush"}
                    /\ handResult.rank.high = JsNumber(5)

\* getHandRank has ranked A-2-3-4-5 of mixed suits
HandRankIsTheCategoryWitness ==
    /\ engine = "HandRank"
    /\ Wheel /\ ~OneSuit
    /\ handResult.rank = [type |-> "straight", value |-> 4, high |-> JsNumber(5)]

----------------------------------------------------------------------------
(* The best five of seven cards *)

\* the ranks of the hands of five cards among the cards of `hand`
RanksOfFive ==
    { getHandRank(sortAscending(five)) :
        five \in { cards \in SUBSET Range(hand) : Cardinality(cards) = 5 } }

\* rank a is above rank b: the higher category, then the higher rank.high
\* as a number (2 .. 14)
Above(a, b) ==
    \/ a.value > b.value
    \/ a.value = b.value /\ Js_toNumber(a.high) > Js_toNumber(b.high)

\* C29: findBestHand returns five of the seven cards whose rank is maximal
\* among the 21 hands of five: the higher category first, then the
\* numerically higher rank.high
BestHandIsMaximal ==
    (engine = "BestHand" /\ handResult.rank # nullRank) =>
        /\ Range(handResult.cards) \subseteq Range(hand)
        /\ Cardinality(Range(handResult.cards)) = 5
        /\ handResult.rank = getHandRank(handResult.cards)
        /\ \A rank \in RanksOfFive : ~Above(rank, handResult.rank)

----------------------------------------------------------------------------
(* The side pots of the local engine *)

\* the distinct positive contributions of the hand
Levels == { localGame.players[k].totalBetThisHand : k \in 1..Len(localGame.players) } \ {0}

\* the i-th level in ascending order, and the level below it (0 below the first)
NthLevel(i) == CHOOSE t \in Levels : Cardinality({ u \in Levels : u < t }) = i - 1
LevelBelow(i) == IF i = 1 THEN 0 ELSE NthLevel(i - 1)

\* the players (indexes) who contributed `level` or more
PaidAtLeast(level) ==
    { i \in LocalGame_indexes(localGame) :
        LocalGame_player(localGame, i).totalBetThisHand >= level }

NotFolded ==
    { i \in LocalGame_indexes(localGame) :
        LocalGame_player(localGame, i).status \in {"active", "all-in"} }

\* a hand of the local engine is running or has just been resolved
LocalHandDealt ==
    /\ engine = "LocalGame" /\ localGame.currentHand > 0
    /\ localGame.gamePhase \in BettingPhases \cup {"showdown"}

TiersOfLevels(pots) ==
    /\ Len(pots) = Cardinality(Levels)
    /\ \A i \in 1..Len(pots) :
          /\ pots[i].amount =
                (NthLevel(i) - LevelBelow(i)) * Cardinality(PaidAtLeast(NthLevel(i)))
          /\ pots[i].eligible = PaidAtLeast(NthLevel(i)) \cap NotFolded
    /\ SumField(pots, "amount") = localGame.pot

\* C31: LocalGame._calculateSidePots returns one tier per distinct positive
\* value of totalBetThisHand, in ascending order; the amount of a tier is
\* (level - previous level) x (number of players whose totalBetThisHand >= level)
\* and its eligible set is exactly the non-folded players among those
\* contributors; the amounts of the tiers add up to the pot.  The tiers a
\* showdown stores in sidePots are these.
SidePotsAreTheTiers ==
    LocalHandDealt =>
        /\ TiersOfLevels(LocalGame_calculateSidePots(localGame))
        /\ (localGame.gamePhase = "showdown" /\ Cardinality(NotFolded) >= 2) =>
               localGame.sidePots = LocalGame_calculateSidePots(localGame)

\* a showdown of three contributors: a first tier for all three and a second
\* tier for the two who paid more
SidePotsWitness ==
    /\ engine = "LocalGame" /\ localGame.gamePhase = "showdown"
    /\ Len(localGame.sidePots) = 2
    /\ Cardinality(localGame.sidePots[1].eligible) = 3
    /\ Cardinality(localGame.sidePots[2].eligible) = 2
    /\ localGame.sidePots[1].amount = 3 * NthLevel(1)
    /\ localGame.sidePots[2].amount = 2 * (NthLevel(2) - NthLevel(1))

----------------------------------------------------------------------------
(* The winners of a showdown *)

\* the ranks of the hands of five cards among `cards`
RanksAmong(cards) ==
    { getHandRank(sortAscending(five)) :
        five \in { some \in SUBSET cards : Cardinality(some) = 5 } }

\* the seven cards of seat k: its hole cards and the community cards
SevenOf(k) == Range(CardsAt(Players[k].holeCards)) \cup Range(CardsAt(CommunityCards))

\* the rank of the best hand of seat k: none of its hands of five is above it
BestOf(k) ==
    CHOOSE rank \in RanksAmong(SevenOf(k)) :
        \A other \in RanksAmong(SevenOf(k)) : ~Above(other, rank)

\* the pots the step distributed, each with the seats that can win it: the
\* tiers of the local engine, the one pot of the server engine
ShowdownPots ==
    IF engine = "LocalGame"
    THEN [i \in 1..Len(localGame'.sidePots) |->
             [amount |-> localGame'.sidePots[i].amount,
              seats |-> { index + 1 : index \in localGame'.sidePots[i].eligible }]]
    ELSE << [amount |-> game'.pot.mainPot, seats |-> Contestants'] >>

\* the seats of a pot that no seat of the pot beats
PotWinners(pot) ==
    { k \in pot.seats : \A j \in pot.seats : ~Above(BestOf(j), BestOf(k)) }

\* the equal shares of seat k in the pots it wins
RECURSIVE Shares(_, _)
Shares(pots, k) ==
    IF pots = <<>> THEN 0
    ELSE (IF k \in PotWinners(Head(pots))
          THEN Head(pots).amount \div Cardinality(PotWinners(Head(pots)))
          ELSE 0) + Shares(Tail(pots), k)

\* C32: at a showdown, for each pot (each tier of LocalGame, the one pot of
\* the server Game) the winners are exactly the eligible players who have
\* not folded and whose best hand has the maximal (category, high) among the
\* eligible players; the winners of a pot receive floor(amount / number of
\* winners) each, and a player of lower rank receives nothing from it.
ShowdownPaysTheBestHands ==
    [][(ShowdownStep /\ bestHands # <<>>) =>
          \A k \in 1..Len(Players) : Credited(k) = Shares(ShowdownPots, k)]_vars

----------------------------------------------------------------------------
(* The minimum raise after a bet or raise *)

\* the engine as every accepted bet or raise of the seat whose turn it is
\* leaves it, when the betting round goes on
RaisedGames ==
    IF engine # "LocalGame"
    THEN { r.g : r \in UNION { GameAccepts(game, <<game.players[ActiveSeat].playerId,
                                                   actionType, amount>>) :
                   actionType \in {"bet", "raise"}, amount \in Amounts } }
    ELSE { r.g : r \in UNION { LocalGameAccepts(localGame, <<ActiveSeat - 1,
                                                             actionType, amount>>) :
                   actionType \in {"bet", "raise"}, amount \in Amounts } }

\* the amount by which the actor's bet exceeds the table bet it was made against
RaiseSize(raised) == raised.players[ActiveSeat].currentBet - TableBet

\* a full raise sets the minimum raise to its size, anything less leaves it
MinimumRaiseFollowsFullRaises ==
    \A raised \in RaisedGames :
       raised.gamePhase = Phase =>
          /\ raised.minimumRaise =
                IF RaiseSize(raised) >= MinimumRaise THEN RaiseSize(raised) ELSE MinimumRaise
          /\ raised.minimumRaise > 0

\* C33: in both engines, after an accepted bet or raise within a betting
\* round, minimumRaise equals the size of the last full raise (the amount by
\* which that bet or raise exceeded the table bet it was made against); an
\* all-in that raises by less than the current minimumRaise, or that does not
\* even match the table bet, leaves minimumRaise unchanged; minimumRaise is
\* never zero or negative in a betting round.
MinimumRaiseIsLastFullRaise ==
    /\ (Phase \in BettingPhases /\ CurrentHand > 0 /\ ~hung) => MinimumRaise > 0
    /\ ActorCanAct => MinimumRaiseFollowsFullRaises

----------------------------------------------------------------------------
(* The cards a hand takes from the deck *)

\* the cards left in the deck of the engine
CardsLeft == IF engine # "LocalGame" THEN game.deck ELSE localGame.deck

\* the community cards on the board after each reveal, and the reveals so far
BoardSizes == {0, 3, 4, 5}

RevealsOf(boardSize) ==
    CASE boardSize = 0 -> 0
      [] boardSize = 3 -> 1
      [] boardSize = 4 -> 2
      [] boardSize = 5 -> 3
      [] OTHER -> 0

\* a hand has been dealt and the table has not been closed
HandOnTable == CurrentHand > 0 /\ Phase \in BettingPhases \cup {"showdown", "hand-complete"}

\* the cards that left the deck and are neither on the board nor burnt
\* before a reveal
HoleCardsDealt == 52 - CardsLeft - Len(CommunityCards) - RevealsOf(Len(CommunityCards))

\* C34: in every hand of both engines, community cards are revealed only in
\* groups of 3 (flop), 1 (turn) and 1 (river), and exactly one burn card is
\* dealt immediately before each of these reveals, so a hand deals at most 2
\* hole cards per participant, 3 burn cards and 5 community cards;
\* consequently dealCard never fails with an empty deck for any table of up
\* to 9 participants.
HandDealsWithinTheDeck ==
    HandOnTable =>
        /\ Len(CommunityCards) \in BoardSizes
        /\ \A k \in Seats : Len(Players[k].holeCards) <= 2
        /\ HoleCardsDealt = 2 * Cardinality(Participants)
        /\ CardsLeft >= 52 - 2 * Len(Players) - 3 - 5
        /\ Len(Players) <= 9 => CardsLeft >= 26

HandDealsWitness ==
    /\ HandOnTable /\ Phase = "river" /\ Len(CommunityCards) = 5
    /\ CardsLeft = 52 - 2 * Len(Players) - 8
    /\ Len(Players) = 3

----------------------------------------------------------------------------
(* The seat whose turn it is *)

\* the outcomes of every call that any caller can make in this state
OutcomesHere ==
    IF engine # "LocalGame"
    THEN UNION { Game_playerAction(game, c[1], c[2], c[3]) : c \in Calls(Ids) }
    ELSE UNION { LocalGame_playerAction(localGame, c[1], c[2], c[3]) : c \in Calls(PlayerIds) }

\* playerAction carries out some call in this state and returns
SomeActionAccepted == \E r \in OutcomesHere : r.fault = "none"

\* a hand is in a betting phase
BettingPhaseOpen ==
    /\ CurrentHand > 0 /\ Phase \in BettingPhases
    /\ engine = "Room" => room.game # "null"

\* the active seat holds chips, is in the hand and is connected
AbleToAct(k) ==
    /\ k # 0
    /\ InHand(k) /\ CanAct(k)
    /\ Players[k].status = "active"
    /\ ChipsOf(k) > 0

\* C35: in both engines, whenever the phase is a betting phase the seat
\* designated as active is a player who is able to act, so at least one
\* playerAction call is accepted in that state; the engine never rests in a
\* betting phase in which every action of every player is rejected: when all
\* remaining contestants are all-in (or all but one), the hand proceeds to
\* showdown instead of waiting for an action nobody can submit.
ActiveSeatIsAbleToAct ==
    BettingPhaseOpen =>
        /\ ~hung
        /\ AbleToAct(ActiveSeat)
        /\ SomeActionAccepted

----------------------------------------------------------------------------
(* Hands played without a bet or a raise *)

PassiveActionTypes == {"fold", "check", "call"}

\* the accepted outcomes of a fold, a check or a call of the player whose
\* turn it is
Game_passiveOutcomes(g) ==
    LET activePlayers == Game_activePlayers(g)
        callers == IF g.activePlayerPosition \in 0..(Len(activePlayers) - 1)
                   THEN {activePlayers[g.activePlayerPosition + 1].playerId}
                   ELSE {}
    IN  { r \in UNION { Game_playerAction(g, playerId, actionType, 0) :
                          playerId \in callers, actionType \in PassiveActionTypes } :
            r.fault = "none" }

LocalGame_passiveOutcomes(l) ==
    { r \in UNION { LocalGame_playerAction(l, l.activePlayerIndex, actionType, 0) :
                      actionType \in PassiveActionTypes } :
        r.fault = "none" }

\* the states of the engine after one more accepted fold, check or call of
\* the player whose turn it is; handHistory, which no code reads, is left out
\* of the comparison of states
AfterPassiveAction(e) ==
    IF engine # "LocalGame"
    THEN { [r.g EXCEPT !.handHistory = 0] : r \in Game_passiveOutcomes(e) }
    ELSE { [r.g EXCEPT !.handHistory = 0] : r \in LocalGame_passiveOutcomes(e) }

\* the states that `steps` or fewer further passive actions reach from the
\* states in `from` while the hand is in a betting phase
RECURSIVE PassivePlayFrom(_, _)
PassivePlayFrom(from, steps) ==
    IF steps = 0 THEN from
    ELSE LET open == { f \in from : f.gamePhase \in BettingPhases }
         IN  UNION { from \cup PassivePlayFrom(next, steps - 1) :
                       next \in { UNION { AfterPassiveAction(e) : e \in open } } }

\* the engine of this process, handHistory left out
EngineHere ==
    IF engine # "LocalGame" THEN [game EXCEPT !.handHistory = 0]
    ELSE [localGame EXCEPT !.handHistory = 0]

\* C36: every hand terminates: in either engine, from any state of a running
\* hand, if each player whose turn it is keeps submitting an accepted action
\* that is not a bet or raise (fold, check or call), the hand reaches
\* showdown / hand-complete after finitely many actions.  Hence no run of
\* accepted folds, checks and calls brings the engine of a running hand back
\* to the state it started from: such a run can be repeated for ever.
PassivePlayNeverReturns ==
    (BettingPhaseOpen /\ ~hung) =>
        EngineHere \notin PassivePlayFrom(AfterPassiveAction(EngineHere), Len(Players) - 1)

----------------------------------------------------------------------------
(* The table bet of a betting round *)

\* the largest currentBet among all players
LargestBet ==
    CHOOSE b \in { Players[k].currentBet : k \in Seats } :
        \A k \in Seats : Players[k].currentBet <= b

TableBetIsLargestBet ==
    (BettingPhaseOpen /\ ~hung) => TableBet = LargestBet

\* a step within one betting round
SameRound ==
    /\ BettingPhaseOpen /\ BettingPhaseOpen'
    /\ CurrentHand' = CurrentHand /\ Phase' = Phase

TableBetNeverDecreases == SameRound => TableBet' >= TableBet

NoChipsBackFromThePot ==
    SameRound => /\ Pot' >= Pot
                 /\ \A k \in Seats : ChipsOf(k)' <= ChipsOf(k)

\* no call, bet or raise that the engine accepts in this state takes chips
\* out of the pot
PotOfOutcome(r) == IF engine # "LocalGame" THEN r.g.pot.mainPot ELSE r.g.pot

AcceptedActionsKeepThePot ==
    (BettingPhaseOpen /\ ~hung) =>
        \A r \in OutcomesHere : r.fault = "none" => PotOfOutcome(r) >= Pot

\* C37: in both engines, in every state of a betting round the table bet
\* currentBetAmount equals the largest currentBet among all players and never
\* decreases during the round; hence no accepted call, bet or raise (including
\* a short all-in) lowers the amount others must match, and no accepted action
\* moves chips from the pot back to the acting player.
TableBetIsTheLargestBetOfTheRound ==
    /\ []TableBetIsLargestBet
    /\ []AcceptedActionsKeepThePot
    /\ [][TableBetNeverDecreases /\ NoChipsBackFromThePot]_vars

----------------------------------------------------------------------------
(* The chips in play *)

\* the chips the players brought to the table
ChipsInPlay == Len(Players) * gameSettings.startingChips

\* a hand is over and its pot has been paid out
BetweenHands == CurrentHand > 0 /\ Phase \in {"showdown", "hand-complete"}

\* C38: across any sequence of hands in either engine the total number of
\* chips in play is conserved: during a hand the sum of all players' stacks
\* plus the pot, and between hands the sum of all players' stacks, always
\* equals (number of players x startingChips).
ChipsAreConserved ==
    /\ (BettingPhaseOpen /\ ~hung) => TotalChips + Pot = ChipsInPlay
    /\ (BetweenHands /\ ~hung) => TotalChips = ChipsInPlay

----------------------------------------------------------------------------
(* A start request for a room whose game is running *)

\* the room of the server runs a game
RoomInProgress ==
    /\ engine = "Room" /\ ~hung
    /\ "room" \in roomManager.rooms
    /\ room.status = "in-progress" /\ room.game # "null"

\* what a call of room.startGame() does in this state
StartRequest == Room_startGame(room, game)

\* C39: Room.startGame is rejected while the room's status is 'in-progress':
\* a second start request never replaces or resets the running Game, so the
\* live game's hand number, stacks, pot and turn are unaffected and the room
\* never has more than one Game whose next-hand timer is pending.
StartRejectedWhileInProgress ==
    RoomInProgress =>
        /\ StartRequest.fault \notin {"none", "hang"}
        /\ StartRequest.g = game
        /\ StartRequest.room = room

----------------------------------------------------------------------------
(* The dealer button from one hand to the next *)

\* every seat of the table was dealt into the last hand and has chips for
\* the next one
AllSeatsPlayOn ==
    \A k \in Seats : Players[k].status # "sitting-out" /\ ChipsOf(k) > 0

\* the step that deals the next hand to the same participants
NextHandDealt ==
    /\ ~hung /\ ~hung'
    /\ CurrentHand >= 1 /\ CurrentHand' = CurrentHand + 1
    /\ Phase' = "pre-flop"
    /\ AllSeatsPlayOn
    /\ \A k \in Seats : Players'[k].status # "sitting-out"

ButtonMovesOn ==
    /\ DealerSeat' = Clockwise(DealerSeat, 1)
    /\ Len(Players) >= 3 =>
          /\ SmallBlindSeat' = Clockwise(SmallBlindSeat, 1)
          /\ BigBlindSeat' = Clockwise(BigBlindSeat, 1)

\* C40: from one hand to the next, in both engines, the dealer button moves
\* to the next participating seat clockwise, so that over consecutive hands
\* with the same participants every participant in turn holds the dealer,
\* small-blind and big-blind positions, including when exactly two players
\* remain.
DealerButtonRotates == [][NextHandDealt => ButtonMovesOn]_vars

====
